---- MODULE Spec2Model ----
(***************************************************************************)
(* Price-anomaly detection and deduplicated alerting of the Amazon.ca      *)
(* price tracker bot: the global scan (scan_amazon_globally), the watched  *)
(* item / category check cycle (check_prices), the commands that feed them *)
(* and the stores they share (SQLite tables, data.json, browser session).  *)
(*                                                                         *)
(* Conventions                                                             *)
(*   - prices are integers (CAD); 0 stands for Python None / a falsy price *)
(*   - the discount_percent of a scraped product is kept in tenths of a    *)
(*     percent (the scraper rounds to one decimal); NoneNum stands for None*)
(*   - confidences are kept in thousandths                                 *)
(*   - a title is abstracted to the set of price_ranges keywords that      *)
(*     occur in its lower-cased text                                       *)
(*   - the clock `now` counts seconds                                      *)
(***************************************************************************)
EXTENDS Integers, Sequences, FiniteSets, TLC

(***************************************************************************)
(* Bounds of the model                                                     *)
(***************************************************************************)
MaxTicks == 2

(***************************************************************************)
(* Program constants                                                       *)
(***************************************************************************)
COOLDOWN_SECONDS == 86400
BIG_DISCOUNT_THRESHOLD == 30
PRICE_ERROR_THRESHOLD_NUM == 1
PRICE_ERROR_THRESHOLD_DEN == 2
MIN_PRICE_FOR_ERROR == 10
PRICE_ERRORS_DAYS == 2
PRICE_ERRORS_LIMIT == 1

NoneNum == 0 - 1
SecondsPerDay == 24 * 3600
HalfDay == COOLDOWN_SECONDS \div 2

(***************************************************************************)
(* Price analyzer (telegram_amazon_bot/price_analyzer.py)                  *)
(***************************************************************************)
price_ranges ==
  << <<"ryzen 9", 400, 800>>,  <<"ryzen 7", 250, 500>>,
     <<"core i9", 400, 800>>,  <<"core i7", 250, 500>>,
     <<"core i5", 150, 350>>,
     <<"rtx 4090", 1500, 2500>>, <<"rtx 4080", 1000, 1500>>,
     <<"rtx 4070", 600, 900>>, <<"rtx 4060", 300, 500>>,
     <<"rx 7900", 800, 1200>>, <<"rx 7800", 500, 800>>,
     <<"rx 7700", 400, 600>>,
     <<"32gb", 100, 300>>, <<"16gb", 50, 200>>,
     <<"ddr5", 80, 400>>, <<"ddr4", 50, 200>>,
     <<"2tb", 100, 300>>, <<"1tb", 50, 200>>,
     <<"nvme", 60, 400>>, <<"ssd", 40, 300>> >>

RECURSIVE FirstMatch(_, _)
FirstMatch(title, i) ==
  IF i > Len(price_ranges) THEN <<>>
  ELSE IF price_ranges[i][1] \in title
       THEN <<price_ranges[i][2], price_ranges[i][3]>>
       ELSE FirstMatch(title, i + 1)

\* the (min, max) of the first keyword found in the title, <<>> for None
get_expected_price_range(title) == FirstMatch(title, 1)

\* a threshold test that leaves out a discount of exactly the threshold
IsBigDiscount_Strict(current_price, original_price) ==
  /\ original_price # 0
  /\ original_price > current_price
  /\ (original_price - current_price) * 100 > BIG_DISCOUNT_THRESHOLD * original_price

\* discount_percent >= big_discount_threshold, on exact rationals
IsBigDiscount(current_price, original_price) ==
  /\ original_price # 0
  /\ original_price > current_price
  /\ (original_price - current_price) * 100 >= BIG_DISCOUNT_THRESHOLD * original_price

BelowExpected(current_price, range) ==
  current_price * PRICE_ERROR_THRESHOLD_DEN < range[1] * PRICE_ERROR_THRESHOLD_NUM

SuspiciousDrop(current_price, last_price) ==
  /\ last_price # 0
  /\ current_price * PRICE_ERROR_THRESHOLD_DEN < last_price * PRICE_ERROR_THRESHOLD_NUM
  /\ (last_price - current_price) * 100 > 50 * last_price

\* the error rule selected by the if / elif / elif chain of step 2
LowErrorType(current_price, last_price, range) ==
  IF current_price < MIN_PRICE_FOR_ERROR THEN "price_too_low"
  ELSE IF Len(range) # 0
       THEN (IF BelowExpected(current_price, range) THEN "price_below_expected" ELSE "none")
       ELSE (IF SuspiciousDrop(current_price, last_price) THEN "suspicious_drop" ELSE "none")

TooHigh(current_price, range) ==
  Len(range) # 0 /\ current_price > range[2] * 2

ErrorConfidence(error_type) ==
  CASE error_type = "price_too_low" -> 900
    [] error_type = "price_below_expected" -> 800
    [] error_type = "suspicious_drop" -> 700
    [] error_type = "price_too_high" -> 600
    [] OTHER -> 0

\* an analysis whose discount is taken relative to the current price
analyze_price_OverCurrent(current_price, original_price, last_price, expected_price_range) ==
  LET hasDiscount == original_price # 0 /\ original_price > current_price
      discount == IF hasDiscount
                  THEN ((original_price - current_price) * 1000) \div current_price
                  ELSE NoneNum
      big == IsBigDiscount(current_price, original_price)
      low == LowErrorType(current_price, last_price, expected_price_range)
      etype == IF TooHigh(current_price, expected_price_range) THEN "price_too_high" ELSE low
  IN [ is_big_discount |-> big,
       is_price_error  |-> etype # "none",
       discount_percent |-> discount,
       error_type |-> etype,
       confidence |-> IF etype # "none" THEN ErrorConfidence(etype)
                      ELSE IF big THEN discount ELSE 0 ]

analyze_price(current_price, original_price, last_price, expected_price_range) ==
  LET hasDiscount == original_price # 0 /\ original_price > current_price
      discount == IF hasDiscount
                  THEN ((original_price - current_price) * 1000) \div original_price
                  ELSE NoneNum
      big == IsBigDiscount(current_price, original_price)
      low == LowErrorType(current_price, last_price, expected_price_range)
      etype == IF TooHigh(current_price, expected_price_range) THEN "price_too_high" ELSE low
  IN [ is_big_discount |-> big,
       is_price_error  |-> etype # "none",
       discount_percent |-> discount,
       error_type |-> etype,
       confidence |-> IF etype # "none" THEN ErrorConfidence(etype)
                      ELSE IF big THEN discount ELSE 0 ]

(***************************************************************************)
(* Catalog source: what the Amazon scraper can return                      *)
(***************************************************************************)
ASINS == {"A", "B"}
Threads == {"job", "scannow"}
Impls == {"bot", "schedulers"}

\* discount_percent of a category product: round(..., 1), None without a discount
ScrapedDiscount(current_price, original_price) ==
  IF original_price # 0 /\ current_price # 0 /\ original_price > current_price
  THEN LET d == ((original_price - current_price) * 2000 + original_price)
                  \div (2 * original_price)
       IN IF d # 0 THEN d ELSE NoneNum
  ELSE NoneNum

Product(asin, current_price, original_price, title) ==
  [ asin |-> asin, current_price |-> current_price,
    original_price |-> original_price,
    discount_percent |-> ScrapedDiscount(current_price, original_price),
    title |-> title ]

\* listings of the popular categories the global scan can see
ScanOffers(asin) ==
  IF asin = "A"
  THEN { Product("A", 100, 0, {}),          \* nothing to report
         Product("A", 50, 100, {}),         \* 50% off
         Product("A", 700, 0, {"ssd"}),     \* price_too_high
         Product("A", 15, 100, {"ssd"}) }   \* price_below_expected and 85% off
  ELSE { Product("B", 15, 0, {"1tb", "ssd"}) }  \* price_below_expected

ScanListings ==
  {<<>>} \cup { <<p>> : p \in ScanOffers("A") \cup ScanOffers("B") }
         \cup { <<p, q>> : p \in ScanOffers("A"), q \in ScanOffers("B") }

(***************************************************************************)
(* State                                                                   *)
(***************************************************************************)
VARIABLES
  now,                \* wall clock, seconds (datetime.now())
  impl,               \* which copy of the jobs is scheduled: bot.py or schedulers/
  big_deals,          \* SQLite table big_deals, keyed by asin
  price_errors,       \* SQLite table price_errors, keyed by asin
  browser_open,       \* amazon_scraper.page / .browser are set
  fetch_broken,       \* per scan thread: its page was closed under its fetch
  pc,                 \* per scan thread: position in scan_amazon_globally
  cat,                \* per scan thread: index into POPULAR_CATEGORIES
  products,           \* per scan thread: the list get_category_products returned
  idx,                \* per scan thread: index of the product being analysed
  existing,           \* per scan thread: the row found by the dedup lookup
  big_deals_count,    \* per scan thread: local counter
  price_errors_count, \* per scan thread: local counter
  detected,           \* per scan thread: <<asin, kind>> counted as new in this scan
  suppressed,         \* per scan thread: <<asin, kind>> dropped by the `continue`
  data_json,          \* the content of data.json
  db_products,        \* SQLite table products, keyed by asin
  price_history,      \* SQLite table price_history, in insertion order
  cp_pc,              \* check_prices: position of the job
  cp_data,            \* check_prices: `data`, the dict load_data() returned
  cp_todo,            \* check_prices: the watched items still to visit
  cp_to,              \* check_prices: the messages still to send at this point
  cp_listing,         \* check_prices: `products` of the category being swept
  cp_known,           \* check_prices: known_products as the sweep found them
  cp_new_discounts,   \* check_prices: `new_discounts`
  cp_subscribed,      \* per item, who had subscribed when the cycle began
  sent,               \* messages the current cycle has handed to Telegram
  alerted_at,         \* per alert kind and item, when subscribers were last notified
  drop_alerted,       \* per item, the price a drop alert was sent for and that
                      \* every cycle since has observed again (0: none)
  cmd_pc,             \* the command handler in progress, if any
  cmd_user,           \* its effective_user
  cmd_data,           \* its `data`, the dict load_data() returned
  cp_fetched,         \* check_prices: the fetches of this cycle, in order, each
                      \* with what it returned (0: nothing; for an item also the
                      \* dict, and the last_price the analysis was given)
  cp_failed,          \* messages of this cycle whose send_message raised
  lowest_observed,    \* per item, the lowest price any fetch has returned (0: none)
  call,               \* the arguments of the analyze_price calls under study
  results,            \* what those calls returned, in order
  product_title,      \* the title get_expected_price_range is called with
  ranges,             \* what those calls returned, in order
  del_call,           \* the last db.delete_product call: its arguments, who had
                      \* added the item, and what it returned
  comparison,         \* SQLite table price_comparisons: the row of one comparison
  retry,              \* a call of a with_retry wrapper: its locals and its outcome
  clock,              \* time.time(), seconds
  cache,              \* AmazonCache.cache: per key its value and timestamp
  cache_log,          \* per key, the last set() and whether a get() has since
                      \* found the entry expired
  cache_got,          \* the last AmazonCache.get call and what it returned
  backoff,            \* BackoffManager.blocked_until: per url (absent: NoneNum)
  backoff_log,        \* per url, the last block() and whether unblock() followed
  backoff_ret         \* the last is_blocked / block call and what it returned

scanVars == << now, impl, big_deals, price_errors, browser_open, fetch_broken, pc,
               cat, products, idx, existing, big_deals_count, price_errors_count,
               detected, suppressed >>

\* what a job or handler has fetched and failed to send, and the prices seen
logVars == << cp_fetched, cp_failed, lowest_observed >>

\* calls of the price analyzer and of db.delete_product under study
\* the price_comparisons row and the objects of amazon_cache.py
libVars == << comparison, retry, clock, cache, cache_log, cache_got, backoff,
              backoff_log, backoff_ret >>

callVars == << call, results, product_title, ranges, del_call, libVars >>

\* the files and tables, and the locals of check_prices and of the handlers
cycleVars == << data_json, db_products, price_history, cp_pc, cp_data, cp_todo,
                cp_to, cp_listing, cp_known, cp_new_discounts, cp_subscribed, sent,
                alerted_at, drop_alerted, cmd_pc, cmd_user, cmd_data, logVars >>

checkVars == << cycleVars, callVars >>

POPULAR_CATEGORIES == <<"cartes graphiques">>

NoRow == [asin |-> "", detected_at |-> NoneNum]
NoDeal == [current_price |-> 0, original_price |-> 0,
           discount_percent |-> NoneNum, detected_at |-> NoneNum]
NoError == [price |-> 0, error_type |-> "none", confidence |-> 0,
            detected_at |-> NoneNum]

InitScan ==
  /\ now = 0
  /\ impl \in Impls
  /\ big_deals = [a \in ASINS |-> NoDeal]
  /\ price_errors = [a \in ASINS |-> NoError]
  /\ browser_open = FALSE
  /\ fetch_broken = [t \in Threads |-> FALSE]
  /\ pc = [t \in Threads |-> "idle"]
  /\ cat = [t \in Threads |-> 0]
  /\ products = [t \in Threads |-> <<>>]
  /\ idx = [t \in Threads |-> 0]
  /\ existing = [t \in Threads |-> NoRow]
  /\ big_deals_count = [t \in Threads |-> 0]
  /\ price_errors_count = [t \in Threads |-> 0]
  /\ detected = [t \in Threads |-> {}]
  /\ suppressed = [t \in Threads |-> {}]

(***************************************************************************)
(* Database reads used by the dedup checks (database.py)                   *)
(***************************************************************************)
\* get_all_big_deals() followed by the loop that keeps the row of `asin`
get_all_big_deals(asin) ==
  IF big_deals[asin].detected_at # NoneNum
  THEN [asin |-> asin, detected_at |-> big_deals[asin].detected_at]
  ELSE NoRow

\* rows of price_errors the WHERE clause of get_price_errors keeps
RecentErrors(days) ==
  { a \in ASINS : /\ price_errors[a].detected_at # NoneNum
                  /\ price_errors[a].detected_at >= now - days * SecondsPerDay }

\* get_price_errors(limit=1): the possible first rows of ORDER BY confidence DESC
\* (rows of equal confidence come in an order SQLite does not fix)
get_price_errors(limit, days) ==
  IF limit = 1
  THEN { [asin |-> a, detected_at |-> price_errors[a].detected_at] :
           a \in { r \in RecentErrors(days) :
                     \A o \in RecentErrors(days) :
                        price_errors[o].confidence <= price_errors[r].confidence } }
  ELSE { [asin |-> a, detected_at |-> price_errors[a].detected_at] :
           a \in RecentErrors(days) }

\* the loop over the returned rows that keeps the row of `asin`
ExistingErrorRows(asin) ==
  LET rows == get_price_errors(PRICE_ERRORS_LIMIT, PRICE_ERRORS_DAYS)
  IN IF rows = {} THEN {NoRow}
     ELSE IF PRICE_ERRORS_LIMIT = 1
          THEN { IF r.asin = asin THEN r ELSE NoRow : r \in rows }
          ELSE IF \E r \in rows : r.asin = asin
               THEN { r \in rows : r.asin = asin } ELSE {NoRow}

\* a dedup test with a window of half the length
WithinCooldown_HalfWindow(detected_at) == now - detected_at < HalfDay

\* (datetime.now() - detected_at).total_seconds() < 86400
WithinCooldown(detected_at) == now - detected_at < COOLDOWN_SECONDS

\* `from datetime import datetime` is present in bot.py, absent in
\* schedulers/global_scanner.py (the dedup branch raises NameError there)
DatetimeImported == impl = "bot"

(***************************************************************************)
(* scan_amazon_globally                                                    *)
(***************************************************************************)
CurrentProduct(t) == products[t][idx[t]]

Analysis(p) ==
  analyze_price(p.current_price, p.original_price, 0,
                get_expected_price_range(p.title))

\* product_discount and product_discount >= BIG_DISCOUNT_THRESHOLD
ProductDiscountQualifies(p) ==
  /\ p.discount_percent # NoneNum
  /\ p.discount_percent # 0
  /\ p.discount_percent >= BIG_DISCOUNT_THRESHOLD * 10

QualifiesBigDeal(p) == ProductDiscountQualifies(p) \/ Analysis(p).is_big_discount

ScanStart(t) ==
  /\ pc[t] = "idle"
  /\ pc' = [pc EXCEPT ![t] = "close"]
  /\ cat' = [cat EXCEPT ![t] = 1]
  /\ products' = [products EXCEPT ![t] = <<>>]
  /\ idx' = [idx EXCEPT ![t] = 0]
  /\ existing' = [existing EXCEPT ![t] = NoRow]
  /\ big_deals_count' = [big_deals_count EXCEPT ![t] = 0]
  /\ price_errors_count' = [price_errors_count EXCEPT ![t] = 0]
  /\ detected' = [detected EXCEPT ![t] = {}]
  /\ suppressed' = [suppressed EXCEPT ![t] = {}]
  /\ UNCHANGED << now, impl, big_deals, price_errors, browser_open, fetch_broken >>
  /\ UNCHANGED checkVars

\* loop.run_until_complete(amazon_scraper.close_browser()) starts
CloseBegin(t) ==
  /\ pc[t] = "close"
  /\ pc' = [pc EXCEPT ![t] = "closing"]
  /\ UNCHANGED << now, impl, big_deals, price_errors, browser_open, fetch_broken,
                  cat, products, idx, existing, big_deals_count,
                  price_errors_count, detected, suppressed >>
  /\ UNCHANGED checkVars

\* close_browser() completes: page, browser and playwright are gone, also for
\* a thread that is in the middle of page.goto
CloseEnd(t) ==
  /\ pc[t] = "closing"
  /\ browser_open' = FALSE
  /\ fetch_broken' = [u \in Threads |-> fetch_broken[u] \/ (u # t /\ pc[u] = "fetching")]
  /\ pc' = [pc EXCEPT ![t] = "goto"]
  /\ UNCHANGED << now, impl, big_deals, price_errors, cat, products, idx, existing,
                  big_deals_count, price_errors_count, detected, suppressed >>
  /\ UNCHANGED checkVars

\* get_category_products: init_browser when needed, then page.goto
FetchBegin(t) ==
  /\ pc[t] = "goto"
  /\ browser_open' = TRUE
  /\ fetch_broken' = [fetch_broken EXCEPT ![t] = FALSE]
  /\ pc' = [pc EXCEPT ![t] = "fetching"]
  /\ UNCHANGED << now, impl, big_deals, price_errors, cat, products, idx, existing,
                  big_deals_count, price_errors_count, detected, suppressed >>
  /\ UNCHANGED checkVars

\* after the products of a category: time.sleep(5), next category or the end
AfterCategory(t) ==
  IF cat[t] < Len(POPULAR_CATEGORIES) THEN "close" ELSE "finish"

\* get_category_products returns: the listing, or [] after an exception (the
\* except branch closes the browser); `if not products: continue`
FetchEnd(t) ==
  /\ pc[t] = "fetching"
  /\ \E listing \in ScanListings :
       LET got == IF fetch_broken[t] THEN <<>> ELSE listing
       IN /\ products' = [products EXCEPT ![t] = got]
          /\ idx' = [idx EXCEPT ![t] = IF got = <<>> THEN 0 ELSE 1]
          /\ pc' = [pc EXCEPT ![t] = IF got = <<>> THEN AfterCategory(t) ELSE "product"]
          /\ cat' = [cat EXCEPT ![t] = IF got = <<>> /\ cat[t] < Len(POPULAR_CATEGORIES)
                                       THEN cat[t] + 1 ELSE cat[t]]
  /\ browser_open' = IF fetch_broken[t] THEN FALSE ELSE browser_open
  /\ fetch_broken' = [u \in Threads |->
                        IF u = t THEN FALSE
                        ELSE fetch_broken[u] \/ (fetch_broken[t] /\ pc[u] = "fetching")]
  /\ UNCHANGED << now, impl, big_deals, price_errors, existing, big_deals_count,
                  price_errors_count, detected, suppressed >>
  /\ UNCHANGED checkVars

\* the `for product in products` loop is exhausted
EndOfProducts(t) ==
  /\ pc[t] = "product"
  /\ idx[t] > Len(products[t])
  /\ pc' = [pc EXCEPT ![t] = AfterCategory(t)]
  /\ cat' = [cat EXCEPT ![t] = IF cat[t] < Len(POPULAR_CATEGORIES)
                               THEN cat[t] + 1 ELSE cat[t]]
  /\ UNCHANGED << now, impl, big_deals, price_errors, browser_open, fetch_broken,
                  products, idx, existing, big_deals_count, price_errors_count,
                  detected, suppressed >>
  /\ UNCHANGED checkVars

\* analysis['is_price_error']: existing_error = db.get_price_errors(limit=1)
ErrRead(t) ==
  /\ pc[t] = "product"
  /\ idx[t] <= Len(products[t])
  /\ Analysis(CurrentProduct(t)).is_price_error
  /\ \E row \in ExistingErrorRows(CurrentProduct(t).asin) :
       existing' = [existing EXCEPT ![t] = row]
  /\ pc' = [pc EXCEPT ![t] = "err_write"]
  /\ UNCHANGED << now, impl, big_deals, price_errors, browser_open, fetch_broken,
                  cat, products, idx, big_deals_count, price_errors_count,
                  detected, suppressed >>
  /\ UNCHANGED checkVars

\* not a price error: straight to the big-discount part
NoError_(t) ==
  /\ pc[t] = "product"
  /\ idx[t] <= Len(products[t])
  /\ ~Analysis(CurrentProduct(t)).is_price_error
  /\ pc' = [pc EXCEPT ![t] = "deal_read"]
  /\ UNCHANGED << now, impl, big_deals, price_errors, browser_open, fetch_broken,
                  cat, products, idx, existing, big_deals_count,
                  price_errors_count, detected, suppressed >>
  /\ UNCHANGED checkVars

\* the 24 h test on the row found and db.add_price_error
ErrWrite(t) ==
  /\ pc[t] = "err_write"
  /\ LET p == CurrentProduct(t)
         an == Analysis(p)
         found == existing[t].asin = p.asin
         skip == found /\ (~DatetimeImported \/ WithinCooldown(existing[t].detected_at))
     IN IF skip
        THEN /\ pc' = [pc EXCEPT ![t] = "product"]
             /\ idx' = [idx EXCEPT ![t] = idx[t] + 1]
             /\ suppressed' = [suppressed EXCEPT ![t] = @ \cup {<<p.asin, "price_error">>}]
             /\ UNCHANGED << price_errors, price_errors_count, detected >>
        ELSE /\ price_errors' = [price_errors EXCEPT ![p.asin] =
                    [price |-> p.current_price, error_type |-> an.error_type,
                     confidence |-> an.confidence, detected_at |-> now]]
             /\ price_errors_count' = [price_errors_count EXCEPT ![t] = @ + 1]
             /\ detected' = [detected EXCEPT ![t] = @ \cup {<<p.asin, "price_error">>}]
             /\ pc' = [pc EXCEPT ![t] = "deal_read"]
             /\ UNCHANGED << idx, suppressed >>
  /\ existing' = [existing EXCEPT ![t] = NoRow]
  /\ UNCHANGED << now, impl, big_deals, browser_open, fetch_broken, cat, products,
                  big_deals_count >>
  /\ UNCHANGED checkVars

\* the big-discount test and existing_deals = db.get_all_big_deals()
DealRead(t) ==
  /\ pc[t] = "deal_read"
  /\ LET p == CurrentProduct(t)
     IN IF QualifiesBigDeal(p)
        THEN /\ existing' = [existing EXCEPT ![t] = get_all_big_deals(p.asin)]
             /\ pc' = [pc EXCEPT ![t] = "deal_write"]
             /\ UNCHANGED idx
        ELSE /\ pc' = [pc EXCEPT ![t] = "product"]
             /\ idx' = [idx EXCEPT ![t] = idx[t] + 1]
             /\ UNCHANGED existing
  /\ UNCHANGED << now, impl, big_deals, price_errors, browser_open, fetch_broken,
                  cat, products, big_deals_count, price_errors_count, detected,
                  suppressed >>
  /\ UNCHANGED checkVars

\* the 24 h test on the row found and db.add_big_deal
DealWrite(t) ==
  /\ pc[t] = "deal_write"
  /\ LET p == CurrentProduct(t)
         an == Analysis(p)
         found == existing[t].asin = p.asin
         skip == found /\ (~DatetimeImported \/ WithinCooldown(existing[t].detected_at))
     IN IF skip
        THEN /\ suppressed' = [suppressed EXCEPT ![t] = @ \cup {<<p.asin, "big_discount">>}]
             /\ UNCHANGED << big_deals, big_deals_count, detected >>
        ELSE /\ big_deals' = [big_deals EXCEPT ![p.asin] =
                    [current_price |-> p.current_price,
                     original_price |-> p.original_price,
                     discount_percent |-> IF ProductDiscountQualifies(p)
                                          THEN p.discount_percent
                                          ELSE an.discount_percent,
                     detected_at |-> now]]
             /\ big_deals_count' = [big_deals_count EXCEPT ![t] = @ + 1]
             /\ detected' = [detected EXCEPT ![t] = @ \cup {<<p.asin, "big_discount">>}]
             /\ UNCHANGED suppressed
  /\ pc' = [pc EXCEPT ![t] = "product"]
  /\ idx' = [idx EXCEPT ![t] = idx[t] + 1]
  /\ existing' = [existing EXCEPT ![t] = NoRow]
  /\ UNCHANGED << now, impl, price_errors, browser_open, fetch_broken, cat, products,
                  price_errors_count >>
  /\ UNCHANGED checkVars

\* "Scan global termine"; with notify_chat_id the counters go into the final
\* message to the chat, which no later step reads
ScanFinish(t) ==
  /\ pc[t] = "finish"
  /\ pc' = [pc EXCEPT ![t] = "idle"]
  \* the locals of the call are gone
  /\ cat' = [cat EXCEPT ![t] = 0]
  /\ products' = [products EXCEPT ![t] = <<>>]
  /\ idx' = [idx EXCEPT ![t] = 0]
  /\ big_deals_count' = [big_deals_count EXCEPT ![t] = 0]
  /\ price_errors_count' = [price_errors_count EXCEPT ![t] = 0]
  /\ detected' = [detected EXCEPT ![t] = {}]
  /\ suppressed' = [suppressed EXCEPT ![t] = {}]
  /\ UNCHANGED << now, impl, big_deals, price_errors, browser_open, fetch_broken,
                  existing >>
  /\ UNCHANGED checkVars

\* time passes between jobs (a job is short against half a day)
Tick ==
  /\ \A t \in Threads : pc[t] = "idle"
  /\ cp_pc = "idle"
  /\ cmd_pc = "idle"
  /\ now < MaxTicks * HalfDay
  /\ now' = now + HalfDay
  /\ UNCHANGED << impl, big_deals, price_errors, browser_open, fetch_broken, pc,
                  cat, products, idx, existing, big_deals_count, price_errors_count,
                  detected, suppressed >>
  /\ UNCHANGED checkVars

ScanStep(t) ==
  \/ ScanStart(t)
  \/ CloseBegin(t)
  \/ CloseEnd(t)
  \/ FetchBegin(t)
  \/ FetchEnd(t)
  \/ EndOfProducts(t)
  \/ ErrRead(t)
  \/ NoError_(t)
  \/ ErrWrite(t)
  \/ DealRead(t)
  \/ DealWrite(t)
  \/ ScanFinish(t)

(***************************************************************************)
(* data.json, the products table and what the scraper returns for them     *)
(***************************************************************************)
Users == {"u1", "u2"}
\* data["users"].items() iterates in insertion order
UserOrder == <<"u1", "u2">>
Categories == {"gpu"}
AlertKinds == {"price_error", "big_discount"}
ItemKinds == AlertKinds \cup {"price_drop"}

\* marks a key that is not in a dict (NoneNum marks a key whose value is None)
AbsentNum == 0 - 2

NoCategory == [present |-> FALSE, products |-> [a \in ASINS |-> AbsentNum]]
NoJsonError == [price |-> 0, detected_at |-> NoneNum]
NoJsonDeal == [current_price |-> 0, detected_at |-> NoneNum]

\* default_data of load_data
EmptyData ==
  [ products |-> [a \in ASINS |-> AbsentNum],
    users |-> [u \in Users |-> [products |-> {}, categories |-> {}]],
    categories |-> [c \in Categories |-> NoCategory],
    big_deals |-> [a \in ASINS |-> NoJsonDeal],
    price_errors |-> [a \in ASINS |-> NoJsonError] ]

\* a data.json written by the version that kept everything in the file:
\* u1 watches item A, last seen at 100
LegacyData ==
  [ EmptyData EXCEPT !.products["A"] = 100, !.users["u1"].products = {"A"} ]

\* a data.json with shared targets: item A watched by both users, item B by
\* u2, both last seen at 100 CAD; category gpu surveyed for both users, with A
\* known in it without a discount (discount_percent None)
SharedData ==
  [ EmptyData EXCEPT
      !.products["A"] = 100,
      !.products["B"] = 100,
      !.users = [u \in Users |-> [products |-> IF u = "u1" THEN {"A"} ELSE {"A", "B"},
                                  categories |-> {"gpu"}]],
      !.categories["gpu"] = [present |-> TRUE,
                             products |-> [a \in ASINS |-> IF a = "A" THEN NoneNum
                                                           ELSE AbsentNum]] ]

NoProduct == [added_by |-> "", last_price |-> 0, lowest_price |-> 0]
EmptyProducts == [a \in ASINS |-> NoProduct]
\* what migrate_data() makes of LegacyData
MigratedProducts ==
  [ EmptyProducts EXCEPT !["A"] = [added_by |-> "u1", last_price |-> 100,
                                   lowest_price |-> 100] ]
MigratedHistory == << [asin |-> "A", price |-> 100] >>
\* the products table after u1's /add of item A at 100 CAD
AddedProducts == MigratedProducts

\* get_product_info: the dict of a product page (None when it has no price)
NoInfo == [current_price |-> 0, original_price |-> 0, title |-> {}]

\* a test that takes every answer of the scraper for a product
NoData_Never(info) == FALSE

\* `not product_info`
NoData(info) == info = NoInfo
ItemOffers ==
  { [current_price |-> 100, original_price |-> 0, title |-> {}],
    [current_price |-> 80, original_price |-> 0, title |-> {}],
    [current_price |-> 50, original_price |-> 100, title |-> {}],   \* 50% off
    [current_price |-> 5, original_price |-> 0, title |-> {}],      \* price_too_low
    [current_price |-> 5, original_price |-> 100, title |-> {}] }   \* price_too_low and 95% off

\* the items users ask for with /add, and the product page as /add finds it
AddRequests == {"A"}
AddOffers == { o \in ItemOffers : o.current_price = 100 }

\* get_category_products for a watched category
CatOffers(asin) ==
  IF asin = "A"
  THEN { Product("A", 100, 0, {}),      \* no discount: discount_percent None
         Product("A", 90, 100, {}),     \* 10% off
         Product("A", 65, 100, {}) }    \* 35% off
  ELSE { Product("B", 90, 100, {}) }

CatListings ==
  {<<>>} \cup { <<p>> : p \in CatOffers("A") \cup CatOffers("B") }
         \cup { <<p, q>> : p \in CatOffers("A"), q \in CatOffers("B") }

InitCheck(data, rows, history) ==
  /\ data_json = data
  /\ db_products = rows
  /\ price_history = history
  /\ cp_pc = "idle"
  /\ cp_data = EmptyData
  /\ cp_todo = <<>>
  /\ cp_to = <<>>
  /\ cp_listing = <<>>
  /\ cp_known = [a \in ASINS |-> AbsentNum]
  /\ cp_new_discounts = <<>>
  /\ cp_subscribed = [a \in ASINS |-> {}]
  /\ sent = <<>>
  /\ alerted_at = [k \in AlertKinds |-> [a \in ASINS |-> NoneNum]]
  /\ drop_alerted = [a \in ASINS |-> 0]
  /\ cmd_pc = "idle"
  /\ cmd_user = ""
  /\ cmd_data = EmptyData
  /\ cp_fetched = <<>>
  /\ cp_failed = <<>>
  /\ lowest_observed = [a \in ASINS |-> IF data.products[a] # AbsentNum
                                         THEN data.products[a]
                                         ELSE rows[a].lowest_price]

\* `from utils.helpers import load_data, send_message_sync`: save_data (and
\* time) are names schedulers/price_checker.py never binds
SaveDataImported == impl = "bot"

\* the users who asked for item `asin` to be watched: through /add of this
\* version (products.added_by) or of the data.json version (users[..].products)
Subscribed(asin) ==
  { u \in Users : asin \in data_json.users[u].products }
    \cup (IF db_products[asin].added_by # "" THEN {db_products[asin].added_by} ELSE {})

(***************************************************************************)
(* check_prices                                                            *)
(***************************************************************************)
Message(to, asin, kind, price, already_alerted, last_alerted) ==
  [ to |-> to, asin |-> asin, kind |-> kind, price |-> price,
    already_alerted |-> already_alerted, last_alerted |-> last_alerted, at |-> now ]

\* for user_id, user_data in data["users"].items():
\*     if asin in user_data.get("products", [])
ProductRecipients(data, asin) ==
  SelectSeq(UserOrder, LAMBDA u : asin \in data.users[u].products)

\*     if category_id in user_data.get("categories", [])
CategoryRecipients(data, category_id) ==
  SelectSeq(UserOrder, LAMBDA u : category_id \in data.users[u].categories)

\* a chain that tests the big discount before the price error
ItemAlertKind_DealFirst(info, last_price) ==
  LET analysis == analyze_price(info.current_price, info.original_price, last_price,
                                get_expected_price_range(info.title))
  IN IF analysis.is_big_discount THEN "big_discount"
     ELSE IF analysis.is_price_error THEN "price_error"
     ELSE IF info.current_price # 0 /\ last_price # 0
             /\ info.current_price < last_price THEN "price_drop"
     ELSE "none"

\* the if / elif / elif chain that picks the alert of a watched item
ItemAlertKind(info, last_price) ==
  LET analysis == analyze_price(info.current_price, info.original_price, last_price,
                                get_expected_price_range(info.title))
  IN IF analysis.is_price_error THEN "price_error"
     ELSE IF analysis.is_big_discount THEN "big_discount"
     ELSE IF info.current_price # 0 /\ last_price # 0
             /\ info.current_price < last_price THEN "price_drop"
     ELSE "none"

\* data = load_data(); `if not products and not categories: return`
CycleStart ==
  /\ cp_pc = "idle"
  /\ cp_data' = data_json
  /\ LET watched == { a \in ASINS : data_json.products[a] # AbsentNum }
         surveyed == { c \in Categories : data_json.categories[c].present }
     IN IF watched = {} /\ surveyed = {}
        THEN cp_pc' = "return" /\ cp_todo' = <<>>
        ELSE /\ cp_pc' = "items"
             /\ cp_todo' = SelectSeq(<<"A", "B">>, LAMBDA a : a \in watched)
  /\ cp_subscribed' = [a \in ASINS |-> Subscribed(a)]
  /\ sent' = <<>>
  /\ cp_to' = <<>>
  /\ cp_listing' = <<>>
  /\ cp_known' = [a \in ASINS |-> AbsentNum]
  /\ cp_new_discounts' = <<>>
  /\ cp_fetched' = <<>>
  /\ cp_failed' = <<>>
  /\ UNCHANGED << data_json, db_products, price_history, alerted_at, drop_alerted,
                  cmd_pc, cmd_user, cmd_data, lowest_observed >>
  /\ UNCHANGED callVars
  /\ UNCHANGED scanVars

\* the lowest of the prices seen so far and a new one
Lowest(lowest, price) == IF lowest = 0 \/ price < lowest THEN price ELSE lowest

\* one watched item: get_product_info, the in-memory update of last_price, the
\* analysis, the in-memory alert record and the list of users to notify
ItemFetch ==
  /\ cp_pc = "items"
  /\ cp_todo # <<>>
  /\ \E info \in ItemOffers \cup {NoInfo} :
       LET asin == Head(cp_todo)
           last_price == cp_data.products[asin]
           kind == ItemAlertKind(info, last_price)
           last_alerted == IF kind \in AlertKinds THEN alerted_at[kind][asin]
                           ELSE NoneNum
           fetched == Append(cp_fetched, [target |-> asin, got |-> info.current_price,
                                          info |-> info, last_price |-> last_price])
       IN IF NoData(info)
          THEN \* `if not product_info: continue`
               /\ cp_fetched' = fetched
               /\ cp_todo' = Tail(cp_todo)
               /\ UNCHANGED << cp_pc, cp_data, cp_to, drop_alerted, lowest_observed >>
          ELSE /\ cp_fetched' = fetched
               /\ lowest_observed' = [lowest_observed EXCEPT
                                        ![asin] = Lowest(@, info.current_price)]
               /\ cp_data' =
                    [ cp_data EXCEPT
                        !.products[asin] = info.current_price,
                        !.price_errors[asin] =
                            IF kind = "price_error"
                            THEN [price |-> info.current_price, detected_at |-> now]
                            ELSE @,
                        !.big_deals[asin] =
                            IF kind = "big_discount"
                            THEN [current_price |-> info.current_price,
                                  detected_at |-> now]
                            ELSE @ ]
               /\ cp_to' =
                    IF kind = "none" THEN <<>>
                    ELSE LET users == ProductRecipients(cp_data, asin)
                         IN [ i \in 1..Len(users) |->
                                Message(users[i], asin, kind, info.current_price,
                                        drop_alerted[asin], last_alerted) ]
               /\ drop_alerted' = [drop_alerted EXCEPT
                                     ![asin] = IF @ = info.current_price THEN @ ELSE 0]
               /\ cp_pc' = "send"
               /\ UNCHANGED cp_todo
  /\ UNCHANGED << data_json, db_products, price_history, cp_listing, cp_known,
                  cp_new_discounts, cp_subscribed, sent, alerted_at, cmd_pc,
                  cmd_user, cmd_data, cp_failed >>
  /\ UNCHANGED callVars
  /\ UNCHANGED scanVars

\* app.bot.send_message to the next user of the loop
Send ==
  /\ cp_pc \in {"send", "cat_send"}
  /\ cp_to # <<>>
  /\ LET m == Head(cp_to)
     IN /\ sent' = Append(sent, m)
        /\ alerted_at' = IF m.kind \in AlertKinds
                         THEN [alerted_at EXCEPT ![m.kind][m.asin] = now]
                         ELSE alerted_at
        /\ drop_alerted' = IF m.kind = "price_drop"
                           THEN [drop_alerted EXCEPT ![m.asin] = m.price]
                           ELSE drop_alerted
  /\ cp_to' = Tail(cp_to)
  /\ UNCHANGED << data_json, db_products, price_history, cp_pc, cp_data, cp_todo,
                  cp_listing, cp_known, cp_new_discounts, cp_subscribed,
                  cmd_pc, cmd_user, cmd_data >>
  /\ UNCHANGED logVars
  /\ UNCHANGED callVars
  /\ UNCHANGED scanVars

\* the recipients left after a send that raised, when the exception ends the loop
AfterFailure_Abort(to) == <<>>

\* the recipients left after a send that raised: `except Exception` logs and
\* the loop goes on with the next user
AfterFailure(to) == Tail(to)

\* app.bot.send_message raises (the user blocked the bot, a timeout, ...):
\* bot.py catches it around each send, send_message_sync inside the call
SendFail ==
  /\ cp_pc \in {"send", "cat_send"}
  /\ cp_to # <<>>
  /\ cp_failed' = Append(cp_failed, Head(cp_to))
  /\ cp_to' = AfterFailure(cp_to)
  /\ UNCHANGED << data_json, db_products, price_history, cp_pc, cp_data, cp_todo,
                  cp_listing, cp_known, cp_new_discounts, cp_subscribed, sent,
                  alerted_at, drop_alerted, cmd_pc, cmd_user, cmd_data,
                  cp_fetched, lowest_observed >>
  /\ UNCHANGED callVars
  /\ UNCHANGED scanVars

\* save_data(data) after the alerts of the item; in schedulers/price_checker.py
\* the call raises NameError, which the `except Exception` of the item logs
ItemSave ==
  /\ cp_pc = "send"
  /\ cp_to = <<>>
  /\ data_json' = IF SaveDataImported THEN cp_data ELSE data_json
  /\ cp_todo' = Tail(cp_todo)
  /\ cp_pc' = "items"
  /\ UNCHANGED << db_products, price_history, cp_data, cp_to, cp_listing, cp_known,
                  cp_new_discounts, cp_subscribed, sent, alerted_at, drop_alerted,
                  cmd_pc, cmd_user, cmd_data >>
  /\ UNCHANGED logVars
  /\ UNCHANGED callVars
  /\ UNCHANGED scanVars

\* the loop over the watched items is exhausted
ItemsDone ==
  /\ cp_pc = "items"
  /\ cp_todo = <<>>
  /\ cp_pc' = IF \E c \in Categories : cp_data.categories[c].present
              THEN "category" ELSE "return"
  /\ UNCHANGED << data_json, db_products, price_history, cp_data, cp_todo, cp_to,
                  cp_listing, cp_known, cp_new_discounts, cp_subscribed, sent,
                  alerted_at, drop_alerted, cmd_pc, cmd_user, cmd_data >>
  /\ UNCHANGED logVars
  /\ UNCHANGED callVars
  /\ UNCHANGED scanVars

\* p.get('discount_percent') and p['discount_percent'] > 0
Discounted(p) == p.discount_percent # NoneNum /\ p.discount_percent > 0

\* `new_discount > known_discount` with a stored discount_percent of None:
\* '>' is not supported between float and NoneType
RaisesTypeError(listing, known) ==
  \E i \in 1..Len(listing) :
    Discounted(listing[i]) /\ known[listing[i].asin] = NoneNum

\* asin not in known_products, or a discount above the stored one
IsNewDiscount(p, known) ==
  /\ Discounted(p)
  /\ \/ known[p.asin] = AbsentNum
     \/ p.discount_percent > known[p.asin]

\* category_data["products"][asin] = {...} for every product of the listing
UpdateKnown(known, listing) ==
  [ a \in ASINS |->
      IF \E i \in 1..Len(listing) : listing[i].asin = a
      THEN (CHOOSE p \in { listing[i] : i \in 1..Len(listing) } : p.asin = a).discount_percent
      ELSE known[a] ]

\* for product in new_discounts: for user_id, user_data in data["users"].items()
RECURSIVE CategoryMessages(_, _)
CategoryMessages(new_discounts, users) ==
  IF new_discounts = <<>> THEN <<>>
  ELSE [ i \in 1..Len(users) |->
           Message(users[i], Head(new_discounts).asin, "new_discount",
                   Head(new_discounts).current_price, 0, NoneNum) ]
       \o CategoryMessages(Tail(new_discounts), users)

\* one watched category: get_category_products, the comparison with the known
\* products, their in-memory update and the list of messages
CategorySweep ==
  /\ cp_pc = "category"
  /\ \E c \in Categories, listing \in CatListings :
       /\ cp_data.categories[c].present
       /\ cp_fetched' = Append(cp_fetched, [target |-> c, got |-> Len(listing)])
       /\ LET known == cp_data.categories[c].products
              new_discounts == SelectSeq(listing, LAMBDA p : IsNewDiscount(p, known))
          IN IF listing = <<>>
             THEN \* `if not products: continue`
                  /\ cp_pc' = "return"
                  /\ UNCHANGED << cp_data, cp_to, cp_listing, cp_known, cp_new_discounts >>
             ELSE IF RaisesTypeError(listing, known)
             THEN \* the `except Exception` of the category logs and goes on
                  /\ cp_pc' = "return"
                  /\ cp_listing' = listing
                  /\ cp_known' = known
                  /\ UNCHANGED << cp_data, cp_to, cp_new_discounts >>
             ELSE /\ cp_data' = [cp_data EXCEPT !.categories[c].products =
                                                   UpdateKnown(known, listing)]
                  /\ cp_listing' = listing
                  /\ cp_known' = known
                  /\ cp_new_discounts' = new_discounts
                  /\ cp_to' = CategoryMessages(new_discounts, CategoryRecipients(cp_data, c))
                  /\ cp_pc' = "cat_send"
  /\ UNCHANGED << data_json, db_products, price_history, cp_todo, cp_subscribed,
                  sent, alerted_at, drop_alerted, cmd_pc, cmd_user, cmd_data,
                  cp_failed, lowest_observed >>
  /\ UNCHANGED callVars
  /\ UNCHANGED scanVars

\* save_data(data) after the alerts of the category (NameError in
\* schedulers/price_checker.py, logged by the `except Exception` of the category)
CategorySave ==
  /\ cp_pc = "cat_send"
  /\ cp_to = <<>>
  /\ data_json' = IF SaveDataImported THEN cp_data ELSE data_json
  /\ cp_pc' = "return"
  /\ UNCHANGED << db_products, price_history, cp_data, cp_todo, cp_to, cp_listing,
                  cp_known, cp_new_discounts, cp_subscribed, sent, alerted_at,
                  drop_alerted, cmd_pc, cmd_user, cmd_data >>
  /\ UNCHANGED logVars
  /\ UNCHANGED callVars
  /\ UNCHANGED scanVars

\* check_prices returns: its locals are gone
CycleFinish ==
  /\ cp_pc = "return"
  /\ cp_pc' = "idle"
  /\ cp_data' = EmptyData
  /\ cp_todo' = <<>>
  /\ cp_to' = <<>>
  /\ cp_listing' = <<>>
  /\ cp_known' = [a \in ASINS |-> AbsentNum]
  /\ cp_new_discounts' = <<>>
  /\ cp_subscribed' = [a \in ASINS |-> {}]
  /\ sent' = <<>>
  /\ cp_fetched' = <<>>
  /\ cp_failed' = <<>>
  /\ UNCHANGED << data_json, db_products, price_history, alerted_at, drop_alerted,
                  cmd_pc, cmd_user, cmd_data, lowest_observed >>
  /\ UNCHANGED callVars
  /\ UNCHANGED scanVars

\* the process is stopped while the job runs (the scheduler's threads are
\* daemons) and started again: data.json and what was sent remain
Interrupt ==
  /\ cp_pc \notin {"idle", "return"}
  /\ cp_pc' = "idle"
  /\ cp_data' = EmptyData
  /\ cp_todo' = <<>>
  /\ cp_to' = <<>>
  /\ cp_listing' = <<>>
  /\ cp_known' = [a \in ASINS |-> AbsentNum]
  /\ cp_new_discounts' = <<>>
  /\ cmd_pc' = "idle"
  /\ cmd_user' = ""
  /\ cmd_data' = EmptyData
  /\ cp_fetched' = <<>>
  /\ cp_failed' = <<>>
  /\ UNCHANGED << data_json, db_products, price_history, cp_subscribed, sent,
                  alerted_at, drop_alerted, lowest_observed >>
  /\ UNCHANGED callVars
  /\ UNCHANGED scanVars

(***************************************************************************)
(* Command handlers (the Application runs one handler at a time)           *)
(***************************************************************************)
\* db.add_product: INSERT OR REPLACE with last_price = lowest_price = price
add_product(rows, asin, added_by, current_price) ==
  [ rows EXCEPT ![asin] = [added_by |-> added_by, last_price |-> current_price,
                           lowest_price |-> current_price] ]

\* db.update_product_price: the UPDATE of the products row
update_product_price(rows, asin, price) ==
  IF rows[asin].added_by # ""
  THEN [ rows EXCEPT ![asin].last_price = price,
                     ![asin].lowest_price =
                        LET lowest == IF rows[asin].lowest_price # 0
                                      THEN rows[asin].lowest_price ELSE price
                        IN IF lowest < price THEN lowest ELSE price ]
  ELSE rows

\* /add <asin>: the products row and the first price_history row; data.json is
\* neither read nor written
AddCommand ==
  /\ cmd_pc = "idle"
  /\ \E user_id \in Users, asin \in AddRequests, info \in AddOffers \cup {NoInfo} :
       IF db_products[asin].added_by # ""
       THEN \* "Ce produit est deja surveille"
            UNCHANGED << db_products, price_history, lowest_observed >>
       ELSE IF info = NoInfo
       THEN \* "Impossible de recuperer les informations du produit"
            UNCHANGED << db_products, price_history, lowest_observed >>
       ELSE /\ lowest_observed' = [lowest_observed EXCEPT
                                     ![asin] = Lowest(@, info.current_price)]
            /\ db_products' =
                 update_product_price(
                   add_product(db_products, asin, user_id, info.current_price),
                   asin, info.current_price)
            /\ price_history' = Append(price_history,
                                       [asin |-> asin, price |-> info.current_price])
  /\ UNCHANGED << data_json, cp_pc, cp_data, cp_todo, cp_to, cp_listing, cp_known,
                  cp_new_discounts, cp_subscribed, sent, alerted_at, drop_alerted,
                  cmd_pc, cmd_user, cmd_data, cp_fetched, cp_failed >>
  /\ UNCHANGED callVars
  /\ UNCHANGED scanVars

\* /category <name>, up to the await of the scrape: data = load_data() and the
\* test that the category is not yet surveyed
CategoryCommandLoad ==
  /\ cmd_pc = "idle"
  /\ \E user_id \in Users, c \in Categories :
       /\ ~data_json.categories[c].present
       /\ cmd_pc' = c
       /\ cmd_user' = user_id
       /\ cmd_data' = data_json
  /\ UNCHANGED << data_json, db_products, price_history, cp_pc, cp_data, cp_todo,
                  cp_to, cp_listing, cp_known, cp_new_discounts, cp_subscribed,
                  sent, alerted_at, drop_alerted >>
  /\ UNCHANGED logVars
  /\ UNCHANGED callVars
  /\ UNCHANGED scanVars

\* /category after the scrape: the category and the user's subscription go
\* into the dict loaded before the scrape, which save_data writes out
CategoryCommandSave ==
  /\ cmd_pc \in Categories
  /\ \E listing \in CatListings :
       IF listing = <<>>
       THEN UNCHANGED data_json
       ELSE data_json' =
              [ cmd_data EXCEPT
                  !.categories[cmd_pc] =
                     [present |-> TRUE,
                      products |-> UpdateKnown([a \in ASINS |-> AbsentNum], listing)],
                  !.users[cmd_user].categories = @ \cup {cmd_pc} ]
  /\ cmd_pc' = "idle"
  /\ cmd_user' = ""
  /\ cmd_data' = EmptyData
  /\ UNCHANGED << db_products, price_history, cp_pc, cp_data, cp_todo, cp_to,
                  cp_listing, cp_known, cp_new_discounts, cp_subscribed, sent,
                  alerted_at, drop_alerted >>
  /\ UNCHANGED logVars
  /\ UNCHANGED callVars
  /\ UNCHANGED scanVars

MaxHistory == 3

\* a DELETE that looks at the asin alone
Deletes_AnyCaller(rows, asin, user_id) == rows[asin].added_by # ""

\* DELETE FROM products WHERE asin = ? AND added_by = ?: is there such a row
Deletes(rows, asin, user_id) ==
  rows[asin].added_by # "" /\ rows[asin].added_by = user_id

\* db.delete_product: the table after the DELETE
delete_product(rows, asin, user_id) ==
  IF Deletes(rows, asin, user_id) THEN [rows EXCEPT ![asin] = NoProduct] ELSE rows

\* db.delete_product(asin, user_id) called with any arguments; price_history
\* keeps the rows of the item
DeleteProduct ==
  /\ cmd_pc = "idle"
  /\ Len(price_history) < MaxHistory
  /\ \E asin \in ASINS, user_id \in Users :
       /\ db_products' = delete_product(db_products, asin, user_id)
       /\ del_call' = [asin |-> asin, user_id |-> user_id,
                       added_by |-> db_products[asin].added_by,
                       deleted |-> Deletes(db_products, asin, user_id)]
  /\ UNCHANGED << call, results, product_title, ranges, libVars >>
  /\ UNCHANGED << data_json, price_history, cp_pc, cp_data, cp_todo, cp_to, cp_listing,
                  cp_known, cp_new_discounts, cp_subscribed, sent, alerted_at,
                  drop_alerted, cmd_pc, cmd_user, cmd_data, logVars >>
  /\ UNCHANGED scanVars

\* /delete <asin>: "Produit non trouve", "Vous n'avez pas ajoute ce produit",
\* or db.delete_product
DeleteCommand ==
  /\ cmd_pc = "idle"
  /\ Len(price_history) < MaxHistory
  /\ \E asin \in ASINS, user_id \in Users :
       IF db_products[asin].added_by = "" \/ db_products[asin].added_by # user_id
       THEN UNCHANGED << db_products, del_call >>
       ELSE /\ db_products' = delete_product(db_products, asin, user_id)
            /\ del_call' = [asin |-> asin, user_id |-> user_id,
                            added_by |-> db_products[asin].added_by,
                            deleted |-> Deletes(db_products, asin, user_id)]
  /\ UNCHANGED << call, results, product_title, ranges, libVars >>
  /\ UNCHANGED << data_json, price_history, cp_pc, cp_data, cp_todo, cp_to, cp_listing,
                  cp_known, cp_new_discounts, cp_subscribed, sent, alerted_at,
                  drop_alerted, cmd_pc, cmd_user, cmd_data, logVars >>
  /\ UNCHANGED scanVars

(***************************************************************************)
(* Direct calls of the Database methods for products                       *)
(***************************************************************************)
\* prices a caller hands to add_product and update_product_price
StorePrices == {50, 80}

\* db.add_product(asin, ..., added_by, current_price) with any arguments
\* (current_price None is 0), as migrate_json_to_db calls it for every product
\* of data.json, whether or not the table has the asin
DbAddProduct ==
  /\ cmd_pc = "idle"
  /\ \E asin \in ASINS, added_by \in Users, current_price \in StorePrices \cup {0} :
       db_products' = add_product(db_products, asin, added_by, current_price)
  /\ UNCHANGED << data_json, price_history, cp_pc, cp_data, cp_todo, cp_to, cp_listing,
                  cp_known, cp_new_discounts, cp_subscribed, sent, alerted_at,
                  drop_alerted, cmd_pc, cmd_user, cmd_data, logVars >>
  /\ UNCHANGED callVars
  /\ UNCHANGED scanVars

\* db.update_product_price(asin, price, ...): the UPDATE where get_product finds
\* a row, and the INSERT INTO price_history in every case
UpdateProductPrice(asin, price) ==
  /\ cmd_pc = "idle"
  /\ Len(price_history) < MaxHistory
  /\ db_products' = update_product_price(db_products, asin, price)
  /\ price_history' = Append(price_history, [asin |-> asin, price |-> price])
  /\ UNCHANGED << data_json, cp_pc, cp_data, cp_todo, cp_to, cp_listing,
                  cp_known, cp_new_discounts, cp_subscribed, sent, alerted_at,
                  drop_alerted, cmd_pc, cmd_user, cmd_data, logVars >>
  /\ UNCHANGED callVars
  /\ UNCHANGED scanVars

\* the method called with any asin and price
DbUpdateProductPrice ==
  \E asin \in ASINS, price \in StorePrices : UpdateProductPrice(asin, price)

(***************************************************************************)
(* Direct calls of PriceAnalyzer                                           *)
(***************************************************************************)
MaxCalls == 2
MaxWords == 2

NoCall == [current_price |-> 0, original_price |-> 0, last_price |-> 0,
           expected_price_range |-> <<>>]
NoDelete == [asin |-> "", user_id |-> "", added_by |-> "", deleted |-> FALSE]

\* arguments analyze_price is called with: a price, a list price or None (0),
\* a previous price or None (0), a (min, max) pair or None (<<>>)
Calls ==
  [ current_price : {5, 10, 45, 70, 71, 100, 120, 700},
    original_price : {0, 100, 120},
    last_price : {0, 100, 300},
    expected_price_range : {<<>>, <<1, 2>>, <<40, 300>>, <<400, 800>>} ]

\* the sites of a comparison, in the order update_price_comparison lists them
Sites == << "amazon", "canadacomputers", "newegg", "memoryexpress" >>
SiteSet == { Sites[i] : i \in DOMAIN Sites }

\* the row add_price_comparison inserts: every price, best_price and best_site NULL
NoComparison == [ prices |-> [s \in SiteSet |-> 0], best_price |-> 0, best_site |-> "" ]

\* no wrapper call has begun
NoRetry == [ pc |-> "idle", max_attempts |-> 0, backoff |-> FALSE, attempt |-> 0,
             calls |-> 0, slept |-> 0, last_exception |-> <<>>, result |-> 0,
             raised |-> <<>> ]

Keys == {"k1", "k2"}
Urls == {"url1", "url2"}

\* a key that is not in AmazonCache.cache
NoEntry == [ value |-> 0, timestamp |-> NoneNum ]

\* one comparison just added, no wrapper call, empty cache and backoff table
InitLib ==
  /\ comparison = NoComparison
  /\ retry = NoRetry
  /\ clock = 0
  /\ cache = [k \in Keys |-> NoEntry]
  /\ cache_log = [k \in Keys |-> [value |-> 0, at |-> NoneNum, expired |-> FALSE]]
  /\ cache_got = [key |-> "", value |-> 0]
  /\ backoff = [u \in Urls |-> NoneNum]
  /\ backoff_log = [u \in Urls |-> [at |-> NoneNum, attempt |-> 0, unblocked |-> FALSE]]
  /\ backoff_ret = [url |-> "", blocked |-> FALSE, delay |-> 0]

\* no call is under study
InitPure ==
  /\ call = NoCall
  /\ results = <<>>
  /\ product_title = <<>>
  /\ ranges = <<>>
  /\ del_call = NoDelete
  /\ InitLib

\* price_analyzer.analyze_price(current_price, original_price, last_price,
\*                              expected_price_range)
Analyze ==
  /\ call # NoCall
  /\ Len(results) < MaxCalls
  /\ results' = Append(results,
                       analyze_price(call.current_price, call.original_price,
                                     call.last_price, call.expected_price_range))
  /\ UNCHANGED << call, product_title, ranges, del_call, libVars >>
  /\ UNCHANGED cycleVars
  /\ UNCHANGED scanVars

\* the text of a title, one character per element
LowerCase == << "a", "b", "c", "d", "e", "f", "g", "h", "i", "j", "k", "l", "m",
                "n", "o", "p", "q", "r", "s", "t", "u", "v", "w", "x", "y", "z" >>
UpperCase == << "A", "B", "C", "D", "E", "F", "G", "H", "I", "J", "K", "L", "M",
                "N", "O", "P", "Q", "R", "S", "T", "U", "V", "W", "X", "Y", "Z" >>

\* a lower() that leaves every character as it is
LowerChar_Identity(c) == c

\* str.lower() on one character
LowerChar(c) ==
  IF \E i \in DOMAIN UpperCase : UpperCase[i] = c
  THEN LowerCase[CHOOSE i \in DOMAIN UpperCase : UpperCase[i] = c]
  ELSE c

\* product_title.lower()
lower(text) == [ i \in DOMAIN text |-> LowerChar(text[i]) ]

\* keyword in title_lower
IsSubstring(keyword, text) ==
  \E i \in 0..(Len(text) - Len(keyword)) :
    \A j \in 1..Len(keyword) : text[i + j] = keyword[j]

\* the keys of price_ranges spelled out, in the order of the dict
keyword_chars ==
  << <<"r","y","z","e","n"," ","9">>, <<"r","y","z","e","n"," ","7">>,
     <<"c","o","r","e"," ","i","9">>, <<"c","o","r","e"," ","i","7">>,
     <<"c","o","r","e"," ","i","5">>,
     <<"r","t","x"," ","4","0","9","0">>, <<"r","t","x"," ","4","0","8","0">>,
     <<"r","t","x"," ","4","0","7","0">>, <<"r","t","x"," ","4","0","6","0">>,
     <<"r","x"," ","7","9","0","0">>, <<"r","x"," ","7","8","0","0">>,
     <<"r","x"," ","7","7","0","0">>,
     <<"3","2","g","b">>, <<"1","6","g","b">>,
     <<"d","d","r","5">>, <<"d","d","r","4">>,
     <<"2","t","b">>, <<"1","t","b">>,
     <<"n","v","m","e">>, <<"s","s","d">> >>

\* the keys of price_ranges that occur in the lower-cased title
Keywords(text) ==
  { price_ranges[i][1] :
      i \in { j \in DOMAIN keyword_chars : IsSubstring(keyword_chars[j], lower(text)) } }

\* words product titles are made of
TitleWords ==
  { <<"S","S","D">>, <<"s","s","d">>, <<"1","T","B">>, <<"N","V","M","e">>,
    <<"R","T","X">>, <<"4","0","9","0">>, <<"3","2","G","B">>, <<"D","d","r","5">>,
    <<"H","D","D">> }

RECURSIVE TitlesOf(_)
TitlesOf(n) ==
  IF n = 0 THEN {<<>>}
  ELSE TitleWords \cup { t \o <<" ">> \o w : t \in TitlesOf(n - 1) \ {<<>>},
                                              w \in TitleWords }

Titles == UNION { TitlesOf(n) : n \in 0..MaxWords }

\* price_analyzer.get_expected_price_range(product_title)
ExpectedRange ==
  /\ call = NoCall
  /\ Len(ranges) < MaxCalls
  /\ ranges' = Append(ranges, get_expected_price_range(Keywords(product_title)))
  /\ UNCHANGED << call, results, product_title, del_call, libVars >>
  /\ UNCHANGED cycleVars
  /\ UNCHANGED scanVars

(***************************************************************************)
(* Database.update_price_comparison                                        *)
(***************************************************************************)
\* the prices a scraper finds for the product on a site
SitePrices == {80, 90, 100}

\* the keyword arguments of a call: per site a price or None (0)
PriceArgs == [SiteSet -> SitePrices \cup {0}]

\* `prices`: the sites whose argument is truthy, in the order of the ifs
GivenSites(given) == SelectSeq(Sites, LAMBDA site : given[site] # 0)

\* min(prices, key=lambda x: x[1]): the first site of the list with the least price
BestOf(given, sites) ==
  sites[CHOOSE i \in DOMAIN sites :
          /\ \A j \in DOMAIN sites : given[sites[i]] <= given[sites[j]]
          /\ \A j \in DOMAIN sites : given[sites[j]] = given[sites[i]] => i <= j]

\* the UPDATE: each price COALESCE(?, column), best_price and best_site as
\* computed from the arguments of the call (NULL when none is given)
update_price_comparison(row, given) ==
  LET sites == GivenSites(given)
  IN [ prices |-> [site \in SiteSet |-> IF given[site] # 0 THEN given[site]
                                         ELSE row.prices[site]],
       best_price |-> IF sites = <<>> THEN 0 ELSE given[BestOf(given, sites)],
       best_site |-> IF sites = <<>> THEN "" ELSE BestOf(given, sites) ]

\* db.update_price_comparison(comparison_id, ...) with any prices
UpdatePriceComparison ==
  /\ \E given \in PriceArgs : comparison' = update_price_comparison(comparison, given)
  /\ UNCHANGED << retry, clock, cache, cache_log, cache_got, backoff, backoff_log,
                  backoff_ret >>
  /\ UNCHANGED << call, results, product_title, ranges, del_call >>
  /\ UNCHANGED cycleVars
  /\ UNCHANGED scanVars

(***************************************************************************)
(* amazon_cache.py: with_retry                                             *)
(***************************************************************************)
MaxAttempts == 3

\* backoff_manager = BackoffManager(initial_delay=5.0, max_delay=300.0, multiplier=2.0)
initial_delay == 5
max_delay == 300
multiplier == 2

\* multiplier ** n
RECURSIVE Power(_, _)
Power(base, n) == IF n <= 0 THEN 1 ELSE base * Power(base, n - 1)

\* a delay without the max_delay cap
BackoffDelay_Uncapped(attempt) == initial_delay * Power(multiplier, attempt - 1)

\* min(initial_delay * multiplier ** (attempt - 1), max_delay)
BackoffDelay(attempt) ==
  LET delay == initial_delay * Power(multiplier, attempt - 1)
  IN IF delay < max_delay THEN delay ELSE max_delay

\* a loop that goes round once more after the last attempt
MoreAttempts_OneTooMany(attempt, max_attempts) == attempt <= max_attempts

\* `if attempt < max_attempts`: sleep and go round the loop again
MoreAttempts(attempt, max_attempts) == attempt < max_attempts

\* what one `await func(*args, **kwargs)` does: returns, raises an error whose
\* text holds one of the blocking keywords, or raises another error
Outcomes == {"ok", "blocked", "error"}

\* the wrapper is called: with_retry(max_attempts, backoff), attempt = 1
RetryCall ==
  /\ retry.pc = "idle"
  /\ \E n \in 1..MaxAttempts, b \in BOOLEAN :
       retry' = [ NoRetry EXCEPT !.pc = "calling", !.max_attempts = n,
                                 !.backoff = b, !.attempt = 1 ]
  /\ UNCHANGED << comparison, clock, cache, cache_log, cache_got, backoff,
                  backoff_log, backoff_ret >>
  /\ UNCHANGED << call, results, product_title, ranges, del_call >>
  /\ UNCHANGED cycleVars
  /\ UNCHANGED scanVars

\* one round of `for attempt in range(1, max_attempts + 1)`: the function is
\* awaited; its result is returned, or its exception is kept and the wrapper
\* sleeps and goes on, or raises it after the last attempt
RetryAttempt ==
  /\ retry.pc = "calling"
  /\ \E outcome \in Outcomes :
       LET attempt == retry.attempt
           e == << attempt, outcome >>
           again == MoreAttempts(attempt, retry.max_attempts)
           delay == IF outcome = "blocked" /\ retry.backoff
                    THEN BackoffDelay(attempt) ELSE 2 * attempt
       IN IF outcome = "ok"
          THEN retry' = [ retry EXCEPT !.calls = @ + 1, !.pc = "returned",
                                       !.result = attempt ]
          ELSE IF again
          THEN retry' = [ retry EXCEPT !.calls = @ + 1, !.last_exception = e,
                                       !.slept = @ + delay, !.attempt = @ + 1 ]
          ELSE retry' = [ retry EXCEPT !.calls = @ + 1, !.last_exception = e,
                                       !.pc = "raised", !.raised = e ]
  /\ UNCHANGED << comparison, clock, cache, cache_log, cache_got, backoff,
                  backoff_log, backoff_ret >>
  /\ UNCHANGED << call, results, product_title, ranges, del_call >>
  /\ UNCHANGED cycleVars
  /\ UNCHANGED scanVars

(***************************************************************************)
(* amazon_cache.py: AmazonCache and BackoffManager                         *)
(***************************************************************************)
\* amazon_cache = AmazonCache(ttl_seconds=300)
ttl_seconds == 300

\* the instants at which a method is called: around one ttl_seconds and around
\* the delays of the backoff
Instants == {0, 5, 10, 295, 300, 305, 310}

\* the values callers put in the cache
CacheValues == {1, 2}

\* the attempt numbers block() is called with: delays 5 s, 10 s and the maximum
BlockAttempts == {1, 2, 7}

\* time passes between two calls
ClockAdvance ==
  /\ \E t \in Instants : t > clock /\ clock' = t
  /\ UNCHANGED << comparison, retry, cache, cache_log, cache_got, backoff,
                  backoff_log, backoff_ret >>
  /\ UNCHANGED << call, results, product_title, ranges, del_call >>
  /\ UNCHANGED cycleVars
  /\ UNCHANGED scanVars

\* a test with the operands of the subtraction exchanged
Expired_Reversed(entry, t) == entry.timestamp - t > ttl_seconds

\* time.time() - entry['timestamp'] > self.ttl_seconds
Expired(entry, t) == t - entry.timestamp > ttl_seconds

\* AmazonCache.set(key, value)
CacheSet(key, value) ==
  /\ cache' = [cache EXCEPT ![key] = [value |-> value, timestamp |-> clock]]
  /\ cache_log' = [cache_log EXCEPT ![key] = [value |-> value, at |-> clock,
                                              expired |-> FALSE]]
  /\ UNCHANGED << clock, cache_got >>
  /\ UNCHANGED << comparison, retry, backoff, backoff_log, backoff_ret >>
  /\ UNCHANGED << call, results, product_title, ranges, del_call >>
  /\ UNCHANGED cycleVars
  /\ UNCHANGED scanVars

\* AmazonCache.get(key): None for a missing key, None and `del` for an expired
\* entry, the value otherwise
CacheGet(key) ==
  /\ IF cache[key] = NoEntry
     THEN /\ cache_got' = [key |-> key, value |-> 0]
          /\ UNCHANGED << cache, cache_log >>
     ELSE IF Expired(cache[key], clock)
     THEN /\ cache' = [cache EXCEPT ![key] = NoEntry]
          /\ cache_log' = [cache_log EXCEPT ![key].expired = TRUE]
          /\ cache_got' = [key |-> key, value |-> 0]
     ELSE /\ cache_got' = [key |-> key, value |-> cache[key].value]
          /\ UNCHANGED << cache, cache_log >>
  /\ UNCHANGED clock
  /\ UNCHANGED << comparison, retry, backoff, backoff_log, backoff_ret >>
  /\ UNCHANGED << call, results, product_title, ranges, del_call >>
  /\ UNCHANGED cycleVars
  /\ UNCHANGED scanVars

\* AmazonCache.clear()
CacheClear ==
  /\ cache' = [k \in Keys |-> NoEntry]
  /\ UNCHANGED << clock, cache_log, cache_got >>
  /\ UNCHANGED << comparison, retry, backoff, backoff_log, backoff_ret >>
  /\ UNCHANGED << call, results, product_title, ranges, del_call >>
  /\ UNCHANGED cycleVars
  /\ UNCHANGED scanVars

\* AmazonCache.clear_expired()
CacheClearExpired ==
  /\ cache' = [k \in Keys |-> IF cache[k] # NoEntry /\ Expired(cache[k], clock)
                               THEN NoEntry ELSE cache[k]]
  /\ UNCHANGED << clock, cache_log, cache_got >>
  /\ UNCHANGED << comparison, retry, backoff, backoff_log, backoff_ret >>
  /\ UNCHANGED << call, results, product_title, ranges, del_call >>
  /\ UNCHANGED cycleVars
  /\ UNCHANGED scanVars

\* the methods of the cache called in any order
CacheStep ==
  \/ \E key \in Keys, value \in CacheValues : CacheSet(key, value)
  \/ \E key \in Keys : CacheGet(key)
  \/ CacheClear
  \/ CacheClearExpired

\* BackoffManager.block(url, attempt): blocked_until[url] = time.time() + delay
Block(url, attempt) ==
  /\ backoff' = [backoff EXCEPT ![url] = clock + BackoffDelay(attempt)]
  /\ backoff_log' = [backoff_log EXCEPT ![url] = [at |-> clock, attempt |-> attempt,
                                                  unblocked |-> FALSE]]
  /\ backoff_ret' = [url |-> url, blocked |-> FALSE, delay |-> BackoffDelay(attempt)]
  /\ UNCHANGED clock
  /\ UNCHANGED << comparison, retry, cache, cache_log, cache_got >>
  /\ UNCHANGED << call, results, product_title, ranges, del_call >>
  /\ UNCHANGED cycleVars
  /\ UNCHANGED scanVars

\* BackoffManager.unblock(url)
Unblock(url) ==
  /\ backoff' = [backoff EXCEPT ![url] = NoneNum]
  /\ backoff_log' = [backoff_log EXCEPT ![url].unblocked = TRUE]
  /\ UNCHANGED << clock, backoff_ret >>
  /\ UNCHANGED << comparison, retry, cache, cache_log, cache_got >>
  /\ UNCHANGED << call, results, product_title, ranges, del_call >>
  /\ UNCHANGED cycleVars
  /\ UNCHANGED scanVars

\* BackoffManager.is_blocked(url): False for a missing url, True before
\* blocked_until, False and `del` from then on
IsBlocked(url) ==
  /\ IF backoff[url] = NoneNum
     THEN /\ backoff_ret' = [url |-> url, blocked |-> FALSE, delay |-> 0]
          /\ UNCHANGED backoff
     ELSE IF clock < backoff[url]
     THEN /\ backoff_ret' = [url |-> url, blocked |-> TRUE, delay |-> 0]
          /\ UNCHANGED backoff
     ELSE /\ backoff' = [backoff EXCEPT ![url] = NoneNum]
          /\ backoff_ret' = [url |-> url, blocked |-> FALSE, delay |-> 0]
  /\ UNCHANGED << clock, backoff_log >>
  /\ UNCHANGED << comparison, retry, cache, cache_log, cache_got >>
  /\ UNCHANGED << call, results, product_title, ranges, del_call >>
  /\ UNCHANGED cycleVars
  /\ UNCHANGED scanVars

\* the methods of the backoff manager called in any order
BackoffStep ==
  \/ \E url \in Urls, attempt \in BlockAttempts : Block(url, attempt)
  \/ \E url \in Urls : Unblock(url)
  \/ \E url \in Urls : IsBlocked(url)

vars == << scanVars, checkVars >>

\* a fresh installation
Init == InitScan /\ InitCheck(EmptyData, EmptyProducts, <<>>) /\ InitPure

\* analyze_price called with each combination of arguments
InitAnalyze ==
  /\ InitScan
  /\ InitCheck(EmptyData, EmptyProducts, <<>>)
  /\ call \in Calls
  /\ results = <<>>
  /\ product_title = <<>>
  /\ ranges = <<>>
  /\ del_call = NoDelete
  /\ InitLib
NextAnalyze == Analyze
SpecAnalyze == InitAnalyze /\ [][NextAnalyze]_vars

\* get_expected_price_range called with each title
InitRange ==
  /\ InitScan
  /\ InitCheck(EmptyData, EmptyProducts, <<>>)
  /\ call = NoCall
  /\ results = <<>>
  /\ product_title \in Titles
  /\ ranges = <<>>
  /\ del_call = NoDelete
  /\ InitLib
NextRange == ExpectedRange
SpecRange == InitRange /\ [][NextRange]_vars

\* the scheduler's scan job alone: scans follow one another
NextSeq == Tick \/ ScanStep("job")
SpecSeq == Init /\ [][NextSeq]_vars

\* the scheduler's scan job and the thread of /scannow, at one instant
NextConc == \E t \in Threads : ScanStep(t)
SpecConc == Init /\ [][NextConc]_vars

\* an installation as the upgrade from the data.json version finds it: fresh,
\* with the old file, or with the old file migrated into the database
InitCheckSpec ==
  /\ InitScan
  /\ InitPure
  /\ \/ InitCheck(EmptyData, EmptyProducts, <<>>)
     \/ InitCheck(LegacyData, EmptyProducts, <<>>)
     \/ InitCheck(LegacyData, MigratedProducts, MigratedHistory)

\* the check_prices job over the watched items, and /add
NextCheck ==
  \/ Tick
  \/ CycleStart
  \/ ItemFetch
  \/ Send
  \/ ItemSave
  \/ ItemsDone
  \/ CycleFinish
  \/ Interrupt
  \/ AddCommand
SpecCheck == InitCheckSpec /\ [][NextCheck]_vars

\* the check_prices job over the watched categories, and /category
NextCategory ==
  \/ CycleStart
  \/ ItemsDone
  \/ CategorySweep
  \/ Send
  \/ CategorySave
  \/ CycleFinish
  \/ CategoryCommandLoad
  \/ CategoryCommandSave
SpecCategory == Init /\ [][NextCategory]_vars

\* whole check_prices cycles, items and categories, with sends that can fail,
\* on a fresh installation with /add or on a data.json with shared targets
InitCycle ==
  /\ InitScan
  /\ InitPure
  /\ \/ InitCheck(EmptyData, AddedProducts, MigratedHistory)
     \/ InitCheck(SharedData, EmptyProducts, <<>>)

\* the steps of a cycle that has begun
CycleStep ==
  \/ ItemFetch
  \/ Send
  \/ SendFail
  \/ ItemSave
  \/ ItemsDone
  \/ CategorySweep
  \/ CategorySave

\* the global scan job, taken before the check job and where data.json has no
\* targets (the two jobs share no table or file)
ScanBefore ==
  /\ data_json = EmptyData
  /\ cp_pc = "idle"
  /\ ScanStep("job")

\* one cycle, up to its return
NextCycle ==
  \/ CycleStart
  \/ CycleStep
  \/ ScanBefore
SpecCycle == InitCycle /\ [][NextCycle]_vars

\* /add, /delete and db.delete_product, in any order and by any user
NextDelete ==
  \/ AddCommand
  \/ DeleteCommand
  \/ DeleteProduct
SpecDelete == InitCheckSpec /\ [][NextDelete]_vars

\* the check_prices job (a thread of the BackgroundScheduler) and /category (a
\* handler on the event loop) at any point of it, on each installation
NextOverlap ==
  \/ CycleStart
  \/ ItemFetch
  \/ Send
  \/ ItemSave
  \/ ItemsDone
  \/ CategorySweep
  \/ CategorySave
  \/ CycleFinish
  \/ CategoryCommandLoad
  \/ CategoryCommandSave
SpecOverlap == InitCheckSpec /\ [][NextOverlap]_vars

\* /add and /delete by any user, and add_product as migrate_json_to_db calls it
\* for the products of a data.json
NextOwner ==
  \/ AddCommand
  \/ DeleteCommand
  \/ DbAddProduct
SpecOwner == Init /\ [][NextOwner]_vars

\* the cache used over some ten minutes
NextCache == ClockAdvance \/ CacheStep
SpecCache == Init /\ [][NextCache]_vars

\* the backoff manager used over some ten minutes
NextBackoff == ClockAdvance \/ BackoffStep
SpecBackoff == Init /\ [][NextBackoff]_vars

\* one call of a wrapped function; the event loop runs the wrapper on, and each
\* await of the function and each sleep ends
NextRetry == RetryCall \/ RetryAttempt
SpecRetry == Init /\ [][NextRetry]_vars /\ WF_vars(NextRetry)

\* update_price_comparison called again and again on one comparison
NextComparison == UpdatePriceComparison
SpecComparison == Init /\ [][NextComparison]_vars

\* add_product and update_product_price called in any order with any arguments
NextStore ==
  \/ DbAddProduct
  \/ DbUpdateProductPrice
SpecStore == Init /\ [][NextStore]_vars

(***************************************************************************)
(* Claims about the global scan                                            *)
(***************************************************************************)
HasRecord(row) == row.detected_at # NoneNum
Stale(row) == HasRecord(row) /\ now - row.detected_at >= COOLDOWN_SECONDS
Active(row) == HasRecord(row) /\ now - row.detected_at < COOLDOWN_SECONDS

\* the products of the current listing that scan thread t is done with
Processed(t) == { products[t][i] : i \in { j \in 1..Len(products[t]) : j < idx[t] } }

\* C1: in the global scan a price_errors record that is less than 86400 s old
\* is not rewritten, and its item is not counted again as a new price error,
\* whatever price errors are recorded for other items.
C1_PriceErrorOncePerWindow ==
  [][ \A a \in ASINS :
        Active(price_errors[a]) =>
          /\ price_errors'[a] = price_errors[a]
          /\ \A t \in Threads :
               <<a, "price_error">> \in detected'[t] => <<a, "price_error">> \in detected[t]
    ]_vars

\* C2: in sequential global scans a big_deals record that is less than 86400 s
\* old is left unchanged (detected_at included) and its item is not counted
\* again as a new big deal.
C2_BigDealOncePerWindow ==
  [][ \A a \in ASINS :
        Active(big_deals[a]) =>
          /\ big_deals'[a] = big_deals[a]
          /\ \A t \in Threads :
               <<a, "big_discount">> \in detected'[t] => <<a, "big_discount">> \in detected[t]
    ]_vars

\* a later scan met item A as a big discount half a day after its record was
\* written, and dropped it
C2_Witness ==
  /\ <<"A", "big_discount">> \in suppressed["job"]
  /\ HasRecord(big_deals["A"])
  /\ now - big_deals["A"].detected_at = HalfDay

\* C3: of two global scans that run at the same time and both see the same new
\* big-discount item, at most one records and counts it as a new alert.
C3_OneConcurrentWriter ==
  \A a \in ASINS :
    ~ ( /\ <<a, "big_discount">> \in detected["job"]
        /\ <<a, "big_discount">> \in detected["scannow"] )

\* C4: once a scan is done with an item that qualifies for an alert kind, no
\* record of that kind that is 86400 s old or older is left for the item: the
\* scan has written a fresh one and counted it.
C4_FreshRecordAfterCooldown ==
  \A t \in Threads : \A p \in Processed(t) :
    /\ Analysis(p).is_price_error =>
         ( Stale(price_errors[p.asin]) => FALSE )
    /\ QualifiesBigDeal(p) =>
         ( Stale(big_deals[p.asin]) => FALSE )
    /\ ( Analysis(p).is_price_error /\ price_errors[p.asin].detected_at = now
           /\ <<p.asin, "price_error">> \notin suppressed[t] )
         => <<p.asin, "price_error">> \in detected[t]

\* C9: no scan job is inside a call on the shared AmazonScraper session
\* (close_browser, get_category_products) while another job is inside one; in
\* particular close_browser never runs during another job's fetch.
C9_ExclusiveSession ==
  \A t \in Threads : \A u \in Threads \ {t} :
    ~ ( pc[t] \in {"closing", "fetching"} /\ pc[u] = "fetching" )

\* C22: deduplication is per (item, alert kind): an item of the global scan
\* whose price_errors record is still within its cooldown is nevertheless
\* evaluated for big_discount in the same pass, so that once the scan is done
\* with it a qualifying big discount has a record within the cooldown, written
\* and counted by this pass unless one was there already.
C22_KindsDedupedApart ==
  \A t \in Threads : \A p \in Processed(t) :
    ( <<p.asin, "price_error">> \in suppressed[t] /\ QualifiesBigDeal(p) ) =>
      /\ Active(big_deals[p.asin])
      /\ \/ <<p.asin, "big_discount">> \in detected[t]
         \/ <<p.asin, "big_discount">> \in suppressed[t]

(***************************************************************************)
(* Claims about check_prices and the commands                              *)
(***************************************************************************)
\* C5: check_prices notifies the subscribers of a price error or big discount
\* of a watched item only if no notification of that kind was sent for the
\* item during the 86400 s before: of successive cycles within 24 h in which
\* the item qualifies, only the first notifies.
C5_AlertInFirstCycleOnly ==
  \A i \in DOMAIN sent :
    sent[i].kind \in AlertKinds =>
      \/ sent[i].last_alerted = NoneNum
      \/ sent[i].at - sent[i].last_alerted >= COOLDOWN_SECONDS

\* C6: check_prices sends no price-drop alert for a price for which it has
\* sent one already and which every cycle since has observed unchanged: over
\* cycles that see the same price after a drop the alert is sent at most once.
C6_DropAlertAtMostOnce ==
  \A i \in DOMAIN sent :
    sent[i].kind = "price_drop" => sent[i].price # sent[i].already_alerted

\* the discount a known item is compared with (None counts as no discount)
StoredDiscount(known, asin) == IF known[asin] = NoneNum THEN 0 ELSE known[asin]

\* C7: when a category sweep is over, new_discounts holds exactly the
\* discounted items of the listing that were absent from the known items or
\* whose discount is strictly greater than the stored one, whatever was stored
\* (None included), and the known items in data.json are those of the listing.
C7_NewDiscountRule ==
  (cp_pc = "return" /\ cp_listing # <<>>) =>
    LET listed == { cp_listing[i] : i \in 1..Len(cp_listing) }
        expected == { p.asin : p \in { q \in listed :
                        /\ Discounted(q)
                        /\ \/ cp_known[q.asin] = AbsentNum
                           \/ q.discount_percent > StoredDiscount(cp_known, q.asin) } }
    IN /\ { cp_new_discounts[i].asin : i \in 1..Len(cp_new_discounts) } = expected
       /\ \A c \in Categories : \A p \in listed :
            data_json.categories[c].products[p.asin] = p.discount_percent

\* C8: no alert of a watched item is sent before the observation it reports is
\* in data.json: at every point where a cycle can be interrupted, the price of
\* each alert sent is the item's persisted last_price.
C8_ObservationPersistedBeforeAlert ==
  \A i \in DOMAIN sent :
    sent[i].kind \in ItemKinds =>
      data_json.products[sent[i].asin] = sent[i].price

\* C10: in a check cycle every user who had subscribed to an item when the
\* cycle began is a recipient of the item's alerts (the item is visited and the
\* user is in its recipient list), receives each alert that is sent for it, and
\* no user receives an alert twice or without having subscribed.
C10_AlertsReachAddSubscribers ==
  \A a \in ASINS :
    /\ \A i \in DOMAIN sent :
         (sent[i].kind \in ItemKinds /\ sent[i].asin = a) =>
            /\ sent[i].to \in cp_subscribed[a]
            /\ \A j \in DOMAIN sent :
                 (sent[j].asin = a /\ sent[j].to = sent[i].to) => j = i
    /\ cp_pc \in {"items", "send", "return"} =>
         \A u \in cp_subscribed[a] :
            /\ cp_data.products[a] # AbsentNum
            /\ a \in cp_data.users[u].products
    /\ (cp_pc = "send" /\ cp_to = <<>> /\ \E i \in DOMAIN sent : sent[i].asin = a) =>
         \A u \in cp_subscribed[a] :
            \E i \in DOMAIN sent : sent[i].asin = a /\ sent[i].to = u

(***************************************************************************)
(* Claims about the stored prices of a watched item                        *)
(***************************************************************************)
\* the price the current cycle has observed for item a (0: none)
Observation(a) ==
  LET hits == { i \in DOMAIN cp_fetched :
                  cp_fetched[i].target = a /\ cp_fetched[i].got # 0 }
  IN IF hits = {} THEN 0
     ELSE cp_fetched[CHOOSE i \in hits : \A j \in hits : j <= i].got

\* C11: when a check cycle that obtained an observation for a watched item is
\* over, the item's row in the products table has last_price equal to the
\* observed price and lowest_price equal to the minimum of all the prices
\* observed for the item so far, and the newest price_history row of the item
\* is the observation.
C11_ObservationStored ==
  cp_pc = "return" =>
    \A a \in ASINS :
      Observation(a) # 0 =>
        /\ db_products[a].last_price = Observation(a)
        /\ db_products[a].lowest_price = lowest_observed[a]
        /\ \E i \in DOMAIN price_history :
             /\ price_history[i] = [asin |-> a, price |-> Observation(a)]
             /\ \A j \in DOMAIN price_history : j > i => price_history[j].asin # a

(***************************************************************************)
(* Claims about PriceAnalyzer                                              *)
(***************************************************************************)
\* C12: every analyze_price call with current_price < min_price_for_error
\* returns is_price_error = true and error_type = 'price_too_low', whatever
\* expected_price_range, original_price and last_price it is given.
C12_TooLowAlwaysFlagged ==
  \A i \in DOMAIN results :
    call.current_price < MIN_PRICE_FOR_ERROR =>
      /\ results[i].is_price_error
      /\ results[i].error_type = "price_too_low"

\* current_price < min_expected * price_error_threshold, for a range given
RangeRuleFires ==
  /\ call.expected_price_range # <<>>
  /\ call.current_price * PRICE_ERROR_THRESHOLD_DEN
       < call.expected_price_range[1] * PRICE_ERROR_THRESHOLD_NUM

\* C13: every analyze_price call in which current_price >= min_price_for_error,
\* the below-expected-range rule does not fire, last_price is present,
\* current_price < last_price * price_error_threshold and the drop exceeds 50%
\* returns is_price_error = true, error_type = 'suspicious_drop' and confidence
\* 0.7, with an expected range and without one.
C13_SuspiciousDropFlagged ==
  \A i \in DOMAIN results :
    ( /\ call.current_price >= MIN_PRICE_FOR_ERROR
      /\ ~RangeRuleFires
      /\ call.last_price # 0
      /\ call.current_price * PRICE_ERROR_THRESHOLD_DEN
           < call.last_price * PRICE_ERROR_THRESHOLD_NUM
      /\ (call.last_price - call.current_price) * 100 > 50 * call.last_price )
    => /\ results[i].is_price_error
       /\ results[i].error_type = "suspicious_drop"
       /\ results[i].confidence = 700

\* C14: analyze_price returns is_big_discount = true exactly when
\* original_price is present, original_price > current_price and
\* (original_price - current_price) / original_price * 100 is at least
\* big_discount_threshold; with original_price = None it is always false.
C14_BigDiscountExactly ==
  \A i \in DOMAIN results :
    /\ results[i].is_big_discount <=>
         ( /\ call.original_price # 0
           /\ call.original_price > call.current_price
           /\ (call.original_price - call.current_price) * 100
                >= BIG_DISCOUNT_THRESHOLD * call.original_price )
    /\ call.original_price = 0 => ~results[i].is_big_discount

\* a discount of exactly 30% was analysed and flagged
C14_Witness ==
  /\ results # <<>>
  /\ call.current_price = 70
  /\ call.original_price = 100
  /\ results[1].is_big_discount

\* C15 as stated: for current_price > 0 and original_price >= current_price
\* the discount_percent analyze_price returns lies in [0, 100], and two calls
\* with the same arguments return the same result.
C15_DiscountInRange ==
  /\ \A i \in DOMAIN results :
       (call.current_price > 0 /\ call.original_price >= call.current_price) =>
         (0 <= results[i].discount_percent /\ results[i].discount_percent <= 1000)
  /\ \A i \in DOMAIN results : \A j \in DOMAIN results : results[i] = results[j]

\* C15, amended: for current_price > 0 and original_price > current_price the
\* discount_percent analyze_price returns lies in [0, 100]; for original_price
\* = current_price it returns no discount_percent (None); two calls with the
\* same arguments return the same result.
C15_DiscountInRangeWhenComputed ==
  /\ \A i \in DOMAIN results :
       /\ (call.current_price > 0 /\ call.original_price > call.current_price) =>
            (0 <= results[i].discount_percent /\ results[i].discount_percent <= 1000)
       /\ (call.current_price > 0 /\ call.original_price = call.current_price) =>
            results[i].discount_percent = NoneNum
  /\ \A i \in DOMAIN results : \A j \in DOMAIN results : results[i] = results[j]

\* 5 CAD against a list price of 120 was analysed twice: 95.8%
C15_Witness ==
  /\ Len(results) = 2
  /\ call.current_price = 5
  /\ call.original_price = 120
  /\ results[2].discount_percent = 958

\* every letter in the other case
SwapCase(text) ==
  [ i \in DOMAIN text |->
      IF \E k \in DOMAIN UpperCase : UpperCase[k] = text[i]
      THEN LowerCase[CHOOSE k \in DOMAIN UpperCase : UpperCase[k] = text[i]]
      ELSE IF \E k \in DOMAIN LowerCase : LowerCase[k] = text[i]
           THEN UpperCase[CHOOSE k \in DOMAIN LowerCase : LowerCase[k] = text[i]]
           ELSE text[i] ]

\* the rules of the table whose keyword is a substring of the text
Matching(text) ==
  { k \in DOMAIN keyword_chars : IsSubstring(keyword_chars[k], text) }

\* C16: get_expected_price_range returns the (min, max) of the first rule, in
\* table order, whose keyword is a substring of the lower-cased title, and
\* None exactly when no keyword of the table occurs in it; the title with the
\* case of every letter changed gets the same result.
C16_FirstKeywordAnyCase ==
  \A i \in DOMAIN ranges :
    LET hits == Matching(lower(product_title))
        first == CHOOSE k \in hits : \A h \in hits : k <= h
    IN /\ hits # {} => ranges[i] = <<price_ranges[first][2], price_ranges[first][3]>>
       /\ hits = {} <=> ranges[i] = <<>>
       /\ ranges[i] = get_expected_price_range(Keywords(SwapCase(product_title)))

\* "SSD 1TB" got the range of '1tb', the earlier rule of the table
C16_Witness ==
  /\ product_title = <<"S","S","D"," ","1","T","B">>
  /\ ranges = << <<50, 200>> >>

(***************************************************************************)
(* Claims about the commands on the products table                         *)
(***************************************************************************)
\* C20: db.delete_product(asin, user_id) removes the row of the item and
\* returns true only when user_id is the user recorded as having added it;
\* for any other caller it returns false and leaves the products table as it
\* was.
C20_OnlyOwnerDeletes ==
  [][ del_call' # del_call =>
        LET c == del_call'
        IN IF db_products[c.asin].added_by = c.user_id
           THEN /\ c.deleted
                /\ db_products' = [db_products EXCEPT ![c.asin] = NoProduct]
           ELSE /\ ~c.deleted
                /\ db_products' = db_products
    ]_vars

\* u2 asked for the deletion of the item u1 had added: refused, row still there
C20_Witness ==
  /\ del_call = [asin |-> "A", user_id |-> "u2", added_by |-> "u1", deleted |-> FALSE]
  /\ db_products["A"].added_by = "u1"

(***************************************************************************)
(* Claims about the course of a check cycle                                *)
(***************************************************************************)
\* how often the current cycle has fetched a target
Fetches(target) ==
  Cardinality({ i \in DOMAIN cp_fetched : cp_fetched[i].target = target })

\* the messages of the current cycle: sent, failed, or still to send
Attempted == { sent[i] : i \in DOMAIN sent } \cup { cp_failed[i] : i \in DOMAIN cp_failed }
Queued == { cp_to[i] : i \in DOMAIN cp_to }

\* C17: in one check_prices cycle every watched item and then every watched
\* category is fetched exactly once, in sequence: no target is fetched twice,
\* items come before categories, a cycle that has begun can always take its
\* next step, and when it returns every item a user had asked to watch and
\* every surveyed category has been fetched once, whatever the earlier fetches
\* returned or raised.
C17_EveryTargetFetchedOnce ==
  /\ \A x \in ASINS \cup Categories : Fetches(x) <= 1
  /\ \A i \in DOMAIN cp_fetched : \A j \in DOMAIN cp_fetched :
       (cp_fetched[i].target \in Categories /\ cp_fetched[j].target \in ASINS) => j < i
  /\ cp_pc \notin {"idle", "return"} => ENABLED CycleStep
  /\ cp_pc = "return" =>
       /\ \A a \in ASINS : cp_subscribed[a] # {} => Fetches(a) = 1
       /\ \A c \in Categories : cp_data.categories[c].present => Fetches(c) = 1

\* the targets whose fetch returned nothing in the current cycle
WithoutData ==
  { cp_fetched[i].target : i \in { j \in DOMAIN cp_fetched : cp_fetched[j].got = 0 } }

\* no message of the cycle is about a target whose fetch returned nothing
QuietWithoutData ==
  \A m \in Attempted \cup Queued :
    /\ m.kind \in ItemKinds => m.asin \notin WithoutData
    /\ m.kind = "new_discount" => WithoutData \cap Categories = {}

\* C18: a fetch that returns no data (get_product_info None, an empty list
\* from get_category_products, in check_prices and in the global scan) leaves
\* data.json and the dict of the cycle (last prices, known items, big_deals,
\* price_errors), the products table and the big_deals and price_errors tables
\* as they were, and no message of the cycle is for that target.
C18_NoDataChangesNothing ==
  [][ /\ ( /\ Len(cp_fetched') = Len(cp_fetched) + 1
           /\ cp_fetched'[Len(cp_fetched')].got = 0 )
         => /\ UNCHANGED << data_json, cp_data, db_products, price_history,
                            big_deals, price_errors >>
            /\ UNCHANGED << sent, cp_to, cp_failed, alerted_at >>
      /\ \A t \in Threads :
           (pc[t] = "fetching" /\ pc'[t] # "fetching" /\ products'[t] = <<>>)
             => /\ UNCHANGED << data_json, db_products, big_deals, price_errors >>
                /\ UNCHANGED << big_deals_count, price_errors_count, detected >>
      /\ QuietWithoutData'
    ]_vars

\* the cycle got nothing for item A, then alerted u2 about item B
C18_Witness ==
  /\ "A" \in WithoutData
  /\ \E i \in DOMAIN sent : sent[i].asin = "B" /\ sent[i].to = "u2"

\* the users the alert of message m goes to
Recipients(m) ==
  IF m.kind = "new_discount"
  THEN { u \in Users : \E c \in Categories : c \in cp_data.users[u].categories }
  ELSE { u \in Users : m.asin \in cp_data.users[u].products }

\* every failed message left its alert to the other subscribers and its
\* record in the dict, and a cycle that returned after a failure has fetched
\* all its targets
FailuresIsolated ==
  /\ \A i \in DOMAIN cp_failed :
       LET m == cp_failed[i]
       IN /\ \A u \in Recipients(m) :
               \E n \in Attempted \cup Queued :
                  n.to = u /\ n.asin = m.asin /\ n.kind = m.kind
          /\ m.kind = "price_error" =>
               cp_data.price_errors[m.asin] = [price |-> m.price, detected_at |-> m.at]
          /\ m.kind = "big_discount" =>
               cp_data.big_deals[m.asin] =
                 [current_price |-> m.price, detected_at |-> m.at]
  /\ (cp_pc = "return" /\ cp_failed # <<>>) =>
       /\ \A a \in ASINS : cp_data.products[a] # AbsentNum => Fetches(a) = 1
       /\ \A c \in Categories : cp_data.categories[c].present => Fetches(c) = 1

\* C19: when the send of an alert to one subscriber fails, the alert still
\* goes to every other subscriber of the item or category (each is sent it or
\* is next in the loop), the record written for the event stays in the dict
\* the cycle saves, the failing send changes neither that dict nor data.json,
\* and the cycle goes on to fetch all its targets.
C19_FailedSendIsolated ==
  [][ /\ FailuresIsolated'
      /\ Len(cp_failed') > Len(cp_failed) =>
           UNCHANGED << data_json, cp_data, cp_todo, cp_pc >>
    ]_vars

\* the price-error alert of item A failed for u1 and reached u2, and the
\* cycle went on to its return
C19_Witness ==
  /\ cp_pc = "return"
  /\ \E i \in DOMAIN cp_failed :
       cp_failed[i].to = "u1" /\ cp_failed[i].asin = "A" /\ cp_failed[i].kind = "price_error"
  /\ \E i \in DOMAIN sent :
       sent[i].to = "u2" /\ sent[i].asin = "A" /\ sent[i].kind = "price_error"

(***************************************************************************)
(* Claims about the products table                                         *)
(***************************************************************************)
\* db.get_product(asin)['last_price'], None (0) where there is no row
get_last_price(rows, asin) == IF rows[asin].added_by # "" THEN rows[asin].last_price ELSE 0

\* the price of the most recent price_history row of the asin (0: no row)
LastHistoryPrice(history, asin) ==
  LET of == { i \in DOMAIN history : history[i].asin = asin }
  IN IF of = {} THEN 0
     ELSE history[CHOOSE i \in of : \A j \in of : j <= i].price

\* C21: after update_product_price(asin, p, ...) for any asin, the last price
\* of that asin read back from the products table is p, and the most recent
\* price_history row of that asin has price p.
C21_UpdateReadBack ==
  [][\A asin \in ASINS, p \in StorePrices :
       UpdateProductPrice(asin, p) =>
         /\ get_last_price(db_products', asin) = p
         /\ LastHistoryPrice(price_history', asin) = p]_vars

\* C27: after any sequence of add_product and update_product_price calls every
\* product with a recorded price has lowest_price <= last_price, and no call
\* increases the lowest_price of a product that already exists.
C27_LowestNeverIncreases ==
  [][\A a \in ASINS :
       /\ db_products'[a].last_price # 0 =>
            db_products'[a].lowest_price <= db_products'[a].last_price
       /\ (db_products[a].added_by # "" /\ db_products[a].lowest_price # 0
           /\ db_products'[a].added_by # "") =>
            db_products'[a].lowest_price <= db_products[a].lowest_price]_vars

(***************************************************************************)
(* Claims about the alert chosen for a watched item                        *)
(***************************************************************************)
\* the kinds of the item alerts of this cycle for item a
KindsAlerted(a) ==
  { m.kind : m \in { x \in Attempted \cup Queued : x.asin = a /\ x.kind \in ItemKinds } }

\* analyze_price as check_prices called it for the fetch f of an item
FetchAnalysis(f) ==
  analyze_price(f.info.current_price, f.info.original_price, f.last_price,
                get_expected_price_range(f.info.title))

\* the fetches of items that returned a product
ItemFetches == { i \in DOMAIN cp_fetched : cp_fetched[i].target \in ASINS /\ cp_fetched[i].got # 0 }

\* C23: check_prices sends at most one alert kind per item per cycle, chosen in
\* the order price error, big discount, ordinary price drop: an observation
\* that is both a price error and a big discount has only the price-error
\* alert sent and only the price-error record written.
C23_OneKindErrorFirst ==
  /\ \A a \in ASINS : Cardinality(KindsAlerted(a)) <= 1
  /\ \A i \in ItemFetches :
       LET f == cp_fetched[i]
           an == FetchAnalysis(f)
       IN /\ an.is_price_error => KindsAlerted(f.target) \subseteq {"price_error"}
          /\ (~an.is_price_error /\ an.is_big_discount) =>
               KindsAlerted(f.target) \subseteq {"big_discount"}
          /\ (~an.is_price_error /\ ~an.is_big_discount) =>
               KindsAlerted(f.target) \subseteq {"price_drop"}
          /\ (an.is_price_error /\ an.is_big_discount /\ cp_pc = "send"
              /\ i = Len(cp_fetched)) =>
               /\ cp_data.price_errors[f.target] =
                    [price |-> f.got, detected_at |-> now]
               /\ cp_data.big_deals[f.target] = data_json.big_deals[f.target]

\* an item was observed as a price error and a big discount at once, and its
\* price-error alert has been sent
C23_Witness ==
  /\ cp_pc = "send"
  /\ Len(cp_fetched) \in ItemFetches
  /\ FetchAnalysis(cp_fetched[Len(cp_fetched)]).is_price_error
  /\ FetchAnalysis(cp_fetched[Len(cp_fetched)]).is_big_discount
  /\ \E i \in DOMAIN sent : sent[i].asin = cp_fetched[Len(cp_fetched)].target
                              /\ sent[i].kind = "price_error"

(***************************************************************************)
(* Claims about data.json under a cycle and a command at once              *)
(***************************************************************************)
\* the category subscriptions data.json holds: <<user, category>>
Subscriptions(data) ==
  { uc \in Users \X Categories :
      data.categories[uc[2]].present /\ uc[2] \in data.users[uc[1]].categories }

\* C24: a category subscription that category_command wrote to data.json while
\* a check_prices cycle is in progress is still in data.json after the cycle:
\* no save_data of the cycle (after an item, after a category) removes a
\* subscription that is in the file.
C24_CycleKeepsSubscriptions ==
  [][(ItemSave \/ CategorySave) =>
       Subscriptions(data_json) \subseteq Subscriptions(data_json')]_vars

(***************************************************************************)
(* Claims about the owner of a product                                     *)
(***************************************************************************)
\* C25: once an item has been registered by a subscriber its added_by owner
\* does not change until the item is deleted: no step takes the products row
\* of an item from one owner to another.
C25_OwnerStable ==
  [][\A a \in ASINS :
       (db_products[a].added_by # "" /\ db_products'[a].added_by # "") =>
         db_products'[a].added_by = db_products[a].added_by]_vars

(***************************************************************************)
(* Claims about the price comparisons                                      *)
(***************************************************************************)
\* the sites whose stored price is not NULL
Priced(row) == { site \in SiteSet : row.prices[site] # 0 }

\* C26: after every update_price_comparison call the stored best_price is the
\* minimum of the stored non-null per-site prices and best_site names a site
\* holding that price (both NULL when no price is stored), also when the call
\* gives prices for only some of the sites or for none.
C26_BestIsStoredMinimum ==
  IF Priced(comparison) = {}
  THEN comparison.best_price = 0 /\ comparison.best_site = ""
  ELSE /\ \A site \in Priced(comparison) :
            comparison.best_price <= comparison.prices[site]
       /\ comparison.best_site \in Priced(comparison)
       /\ comparison.prices[comparison.best_site] = comparison.best_price

(***************************************************************************)
(* Claims about amazon_cache.py                                            *)
(***************************************************************************)
\* the wrapper has returned or raised
RetryDone == retry.pc \in {"returned", "raised"}

\* at most max_attempts invocations; a result is that of the last invocation,
\* which is the first that succeeded; an exception is raised after exactly
\* max_attempts failures and is the one of the last attempt, of either kind
RetryBounded ==
  /\ retry.calls <= retry.max_attempts
  /\ retry.pc = "returned" =>
       /\ retry.result = retry.calls
       /\ retry.last_exception # <<>> => retry.last_exception[1] = retry.calls - 1
  /\ retry.pc = "raised" =>
       /\ retry.calls = retry.max_attempts
       /\ retry.raised = retry.last_exception
       /\ retry.raised[1] = retry.max_attempts
  /\ retry.pc = "calling" => retry.attempt = retry.calls + 1

\* C28: a function wrapped by with_retry(max_attempts = n) is invoked at most
\* n times per call of the wrapper: the wrapper returns the first successful
\* result without invoking the function again, after n consecutive failures
\* it raises the last exception, for blocking and other errors alike, and
\* every call comes to an end.
C28_RetryBoundedAndEnds ==
  /\ []RetryBounded
  /\ [][RetryDone => retry' = retry]_vars
  /\ (retry.pc = "calling") ~> RetryDone

\* three attempts, the last of which was refused as a blocking error, and the
\* wrapper raised it
C28_Witness ==
  /\ retry.pc = "raised"
  /\ retry.max_attempts = 3
  /\ retry.calls = 3
  /\ retry.raised = << 3, "blocked" >>
  /\ retry.backoff

\* C29: AmazonCache.get(key) returns a value only if it is the value of the
\* most recent set(key, ...) and that set happened no more than ttl_seconds
\* ago; a get that finds the entry expired removes it, and from then on get
\* returns None until the next set(key, ...).
C29_GetFreshOrNone ==
  [][\A key \in Keys :
       CacheGet(key) =>
         /\ cache_got'.value # 0 =>
              /\ cache_log[key].at # NoneNum
              /\ cache_got'.value = cache_log[key].value
              /\ clock - cache_log[key].at <= ttl_seconds
         /\ (cache[key] # NoEntry /\ clock - cache_log[key].at > ttl_seconds) =>
              cache'[key] = NoEntry
         /\ (cache_log[key].expired \/ cache_log'[key].expired) =>
              cache_got'.value = 0 /\ cache'[key] = NoEntry]_vars

\* a get found the entry of k1 expired, removed it and returned None
C29_Witness ==
  /\ cache_log["k1"].expired
  /\ cache_log["k1"].at # NoneNum
  /\ clock - cache_log["k1"].at > ttl_seconds
  /\ cache_got = [key |-> "k1", value |-> 0]
  /\ cache["k1"] = NoEntry

\* min(initial_delay * multiplier^(attempt-1), max_delay), as the claim has it
ClaimedDelay(attempt) ==
  LET d == initial_delay * Power(multiplier, attempt - 1)
  IN IF d <= max_delay THEN d ELSE max_delay

\* the most recent block(url, attempt) was issued less than its delay ago and
\* no unblock(url) followed it
ClaimedBlocked(url) ==
  /\ backoff_log[url].at # NoneNum
  /\ ~backoff_log[url].unblocked
  /\ clock - backoff_log[url].at < ClaimedDelay(backoff_log[url].attempt)

\* C30: for every url, is_blocked(url) is true exactly when the most recent
\* block(url, attempt) was issued less than
\* min(initial_delay * multiplier^(attempt-1), max_delay) seconds ago and no
\* unblock(url) followed it; the delay block returns never exceeds max_delay
\* and is non-decreasing in attempt.
C30_BlockedExactlyWithinDelay ==
  /\ [][\A url \in Urls :
          /\ IsBlocked(url) => (backoff_ret'.blocked <=> ClaimedBlocked(url))
          /\ \A attempt \in BlockAttempts :
               Block(url, attempt) =>
                 /\ backoff_ret'.delay <= max_delay
                 /\ backoff_ret'.delay = ClaimedDelay(attempt)]_vars
  /\ [](\A a \in 1..10 : \A b \in a..10 : BackoffDelay(a) <= BackoffDelay(b))

\* url1 was blocked with attempt 7 (320 s cut to max_delay) and is still
\* reported blocked 295 s later
C30_Witness ==
  /\ backoff_ret = [url |-> "url1", blocked |-> TRUE, delay |-> 0]
  /\ backoff_log["url1"].attempt = 7
  /\ clock - backoff_log["url1"].at = 295

====
